---- MODULE Spec2Model ----
(***************************************************************************)
(* batchMedia: the resumable, concurrent batch-processing pipeline.        *)
(*                                                                         *)
(* Nine specifications live in this module.                                *)
(*   SpecScan   the directory scanner (scanDirectories) applied to bounded *)
(*              directory trees.                                           *)
(*   Spec       main() in normal mode: load/seed the progress tracker,     *)
(*              then process the uncompleted directories sequentially or   *)
(*              with one goroutine per directory; the program may be       *)
(*              started again, any number of times, on the same progress   *)
(*              file.                                                      *)
(*   SpecFake   main() with -fakescan.                                     *)
(*   SpecMedia  flag validation and the size decisions for one image or    *)
(*              video.                                                     *)
(*   SpecFile   processImages on the entries of one directory, with the    *)
(*              files it writes.                                           *)
(*   SpecOrient applyEXIFOrientation on one decoded image, and the size    *)
(*              decisions taken on the result.                             *)
(*   SpecExif   the metadata bytes of one image: extractEXIF,              *)
(*              clearOrientationTag, insertEXIFCorrectly.                  *)
(*   SpecInsert insertEXIFCorrectly alone, on payloads up to 65528 bytes.  *)
(*   SpecMark   markDirectoryCompleted alone, on bounded trackers.         *)
(***************************************************************************)
EXTENDS Integers, Sequences, FiniteSets, TLC

(* ----------------------------- bounds ---------------------------------- *)
\* directories below the input root in a tree handed to the scanner
MaxNodes == 4
\* directories below the input root in a tree processed by a run
MaxDirs == 3
\* entries of one directory that get past the filters of processImages
MaxFiles == 2
\* entries, over all the directories of one run
MaxEntries == 2
\* largest value of -multithread
MaxThreads == 2

VARIABLES
    \* --- scanner specification ---
    scanTree,        \* the directory tree under config.InputDir
    scanPc,          \* "ready" | "done"
    scanOut,         \* the slice scanDirectories returned
    \* --- pipeline specification ---
    mainPc,          \* position of main(): start | seq | launch | wait |
                     \*   finished | fatal | crashed
    multithread,     \* config.Multithread
    fileExists,      \* the progress file exists
    fileDirs,        \* "directories" of the progress file
    tracker,         \* tracker.Directories
    uncompletedDirs, \* uncompletedDirs of main()
    tasks,           \* per index of uncompletedDirs: the loop iteration or goroutine
    semaphore,       \* number of elements in the semaphore channel
    progressMutex,   \* 0, or the task holding progressMutex
    statsMutex,      \* 0, or the task holding statsMutex
    stats,           \* the global ProcessStats
    outDirs,         \* the directories that exist under config.OutputDir, as
                     \*   paths relative to it (the empty path: the root)
    \* --- history (not program state) ---
    succeeded,       \* paths for which processImages has returned nil, in any run
    saves,           \* the saves of this run: "all" succeeded, the "last" one
                     \*   succeeded but not all, the last one "failed"
    prevClean,       \* the previous run processed every uncompleted directory
                     \*   without error and all its saves succeeded
    prevDirs,        \* what the previous dry run listed as directories to process
    \* --- media specification ---
    flags,           \* config as flag.Parse left it
    config,          \* config as validateConfig left it
    dims,            \* the media file at hand: its width and height, and whether
                     \*   ffmpeg.Probe succeeds on it
    fnPc,            \* "flags" | "validated" | "rejected" | "done"
    fnOut,           \* what the pipelines decided and recorded for the file
    \* --- directory listing specification (processImages on one directory) ---
    fileCfg,         \* config.Extensions and config.VideoDisabled
    dirEntries,      \* the entries os.ReadDir returned
    filePc,          \* "loop" | "video" | "image" | "copy" | "returned"
    fileIdx,         \* entries the loop has gone past
    fileStats,       \* stats and the directory's dirStats
    outFiles,        \* the files below config.OutputDir: name and data format
    fileHist,        \* (history) per entry gone past: its route and how it ended
    \* --- orientation specification ---
    img,             \* the decoded image
    orientation,     \* the value of the EXIF orientation tag, 0: none
    orientPc,        \* "decoded" | "oriented" | "measured"
    orientOut,       \* the image applyEXIFOrientation returned
    \* --- metadata specification ---
    jpegIn,          \* the bytes of the input file
    encoded,         \* the bytes jpeg.Encode produced
    exifPc,          \* "read" | "extracted" | "none" | "cleaned" | "written"
    exifData,        \* exifData of processImage, << >>: nil
    cleanedExifData, \* what clearOrientationTag returned
    exifOut,         \* finalImageData
    \* --- tracker specification ---
    markPc,          \* "call" | "returned"
    markArg          \* dirPath of the call of markDirectoryCompleted

scanVars == <<scanTree, scanPc, scanOut>>
mediaVars == <<flags, config, dims, fnPc, fnOut>>
fileVars == <<fileCfg, dirEntries, filePc, fileIdx, fileStats, outFiles, fileHist>>
orientVars == <<img, orientation, orientPc, orientOut>>
exifVars == <<jpegIn, encoded, exifPc, exifData, cleanedExifData, exifOut>>
markVars == <<markPc, markArg>>
detailVars == <<fileVars, orientVars, exifVars, markVars>>
runVars == <<mainPc, multithread, fileExists, fileDirs, tracker,
             uncompletedDirs, tasks, semaphore, progressMutex, statsMutex, stats,
             succeeded, saves, prevClean, outDirs>>
vars == <<scanTree, scanPc, scanOut, mainPc, multithread, fileExists, fileDirs,
          tracker, uncompletedDirs, tasks, semaphore, progressMutex, statsMutex,
          stats, succeeded, saves, prevClean, prevDirs, flags, config, dims,
          fnPc, fnOut, fileCfg, dirEntries, filePc, fileIdx, fileStats,
          outFiles, fileHist, img, orientation, orientPc, orientOut, jpegIn,
          encoded, exifPc, exifData, cleanedExifData, exifOut, markPc, markArg,
          outDirs>>

(* ------------------------- directory trees ----------------------------- *)
(* A tree has nodes 1..n below the input root (node 0).  parent[i] < i, and *)
(* the name of node i sorts before the name of node j iff i < j, so that    *)
(* filepath.Walk, which visits the entries of a directory in lexical order, *)
(* visits siblings in increasing node order.  hidden[i]: the name of node i *)
(* starts with ".".  A path is the sequence of nodes from the root down;    *)
(* the root itself (config.InputDir) is the empty path.                     *)
TreesOfSize(n) ==
    { [n |-> n, parent |-> p, hidden |-> h] :
        p \in { f \in [1..n -> 0..(n-1)] : \A i \in 1..n : f[i] < i },
        h \in [1..n -> BOOLEAN] }

Trees == UNION { TreesOfSize(n) : n \in 0..MaxNodes }

RootPath == << >>

RECURSIVE PathOf(_, _)
PathOf(t, i) ==
    IF i = 0 THEN RootPath ELSE Append(PathOf(t, t.parent[i]), i)

\* B lies below A: A is a proper prefix of B
IsBelow(b, a) ==
    /\ Len(a) < Len(b)
    /\ SubSeq(b, 1, Len(a)) = a

Range(s) == { s[k] : k \in 1..Len(s) }

\* os.MkdirAll(p): the directory and every directory above it exist afterwards
MkdirAll(dirs, p) == dirs \cup { SubSeq(p, 1, k) : k \in 0..Len(p) }

(* --------------------------- scanDirectories --------------------------- *)
\* strings.Count(path, string(filepath.Separator)): every path the walk yields
\* is config.InputDir joined with the names on the way down, so the count is
\* the same constant for all of them plus one separator per level.
SepCount(p) == Len(p)

\* the walk callback's verdict for directory i: pruned (filepath.SkipDir) when
\* the name starts with ".", appended otherwise
IsHiddenDir(t, i) == t.hidden[i]

\* filepath.Walk below directory p, entries k, k+1, ... of the tree in lexical
\* order: a directory is reported before its contents, a pruned directory's
\* contents are not visited
RECURSIVE WalkFrom(_, _, _)
WalkFrom(t, p, k) ==
    IF k > t.n THEN << >>
    ELSE (IF t.parent[k] = p /\ ~IsHiddenDir(t, k)
            THEN <<PathOf(t, k)>> \o WalkFrom(t, k, k + 1)
            ELSE << >>)
         \o WalkFrom(t, p, k + 1)

\* a less function that puts shallower directories first
sortLess_Shallow(a, b) == SepCount(a) < SepCount(b)
\* the less function handed to sort.Slice: deeper directories first
sortLess(a, b) == SepCount(a) > SepCount(b)

\* sort.Slice on fewer than 12 elements is an insertion sort: element j moves
\* left while it is less than its left neighbour
RECURSIVE InsertLeft(_, _)
InsertLeft(s, j) ==
    IF j > 1 /\ sortLess(s[j], s[j - 1])
    THEN InsertLeft([s EXCEPT ![j] = s[j - 1], ![j - 1] = s[j]], j - 1)
    ELSE s

RECURSIVE SortFrom(_, _)
SortFrom(s, i) ==
    IF i > Len(s) THEN s ELSE SortFrom(InsertLeft(s, i), i + 1)

scanDirectories(t) == SortFrom(WalkFrom(t, 0, 1), 2)

\* main(): if no subdirectory was found the root directory itself becomes the
\* single directory to process
UnitsOfWork(found) == IF Len(found) = 0 THEN <<RootPath>> ELSE found

\* directory i of tree t is neither hidden nor below a hidden directory
RECURSIVE IsVisible(_, _)
IsVisible(t, i) ==
    IF i = 0 THEN TRUE ELSE ~IsHiddenDir(t, i) /\ IsVisible(t, t.parent[i])

(* --------------------------- progress tracker -------------------------- *)
\* DirectoryProgress{Path: dir, Completed: false}
DirectoryProgress(p) == [path |-> p, completed |-> FALSE, timestamp |-> ""]

\* a load that never finds earlier progress
loadProgress_Forget(exists, dirs) == << >>
\* loadProgress: an empty tracker when the file does not exist
loadProgress(exists, dirs) == IF exists THEN dirs ELSE << >>

\* a marking that marks the last entry of the path instead of the first
markDirectoryCompleted_Last(dirs, p) ==
    LET hits == { k \in 1..Len(dirs) : dirs[k].path = p }
    IN  IF hits = {} THEN dirs
        ELSE LET k == CHOOSE m \in hits : \A o \in hits : m >= o
             IN  [dirs EXCEPT ![k] = [@ EXCEPT !.completed = TRUE, !.timestamp = "now"]]
\* a marking that marks nothing
markDirectoryCompleted_None(dirs, p) == dirs
\* a marking that completes every entry
markDirectoryCompleted_All(dirs, p) ==
    [k \in 1..Len(dirs) |-> [dirs[k] EXCEPT !.completed = TRUE, !.timestamp = "now"]]
\* the first entry whose path equals p gets completed and a timestamp
markDirectoryCompleted(dirs, p) ==
    LET hits == { k \in 1..Len(dirs) : dirs[k].path = p }
    IN  IF hits = {} THEN dirs
        ELSE LET k == CHOOSE m \in hits : \A o \in hits : m <= o
             IN  [dirs EXCEPT ![k] = [@ EXCEPT !.completed = TRUE, !.timestamp = "now"]]

\* a collection that lists every uncompleted path twice
getUncompletedDirectories_Twice(dirs) ==
    LET open == SelectSeq(dirs, LAMBDA e : ~e.completed)
    IN  [k \in 1..(2 * Len(open)) |-> open[((k - 1) % Len(open)) + 1].path]
\* the paths of the entries that are not completed, in tracker order
getUncompletedDirectories(dirs) ==
    LET open == SelectSeq(dirs, LAMBDA e : ~e.completed)
    IN  [k \in 1..Len(open) |-> open[k].path]

CompletedPaths(dirs) == { dirs[k].path : k \in { m \in 1..Len(dirs) : dirs[m].completed } }
PathsOf(dirs) == [k \in 1..Len(dirs) |-> dirs[k].path]

(* ------------------------------ statistics ----------------------------- *)
\* &DirectoryStats{DirectoryPath: dirPath, Files: make([]FileInfo, 0)}
NewDirectoryStats(d) ==
    [DirectoryPath |-> d, TotalFiles |-> 0, ProcessedImages |-> 0,
     CopiedFiles |-> 0, SkippedImages |-> 0, Files |-> << >>]

\* ProcessStats{DirectoryStats: make(map[string]*DirectoryStats)}
EmptyStats ==
    [TotalFiles |-> 0, ProcessedImages |-> 0, CopiedFiles |-> 0,
     SkippedImages |-> 0, Files |-> << >>, DirectoryStats |-> [d \in {} |-> 0]]

\* What the routing of one counted file does to the statistics.
\*   counter  the counter incremented ("none": the pipeline returned an error
\*            before recording anything)
\*   type     FileInfo.Type of the record appended
\*   inDir    the directory's statistics are updated too (processVideo's skip
\*            path updates the global statistics only)
\*   relPath  FileInfo.Path is the path relative to the input root
\*            (processVideo's skip path records filepath.Base)
\*   dirErr   processImages returns the error (copyFile of an unsupported file)
Outcomes ==
    { [op |-> "processImage", counter |-> "ProcessedImages", type |-> "processed",
       inDir |-> TRUE, relPath |-> TRUE, dirErr |-> FALSE],
      [op |-> "processImage", counter |-> "SkippedImages", type |-> "skipped",
       inDir |-> TRUE, relPath |-> TRUE, dirErr |-> FALSE],
      [op |-> "processImage", counter |-> "none", type |-> "",
       inDir |-> FALSE, relPath |-> FALSE, dirErr |-> FALSE],
      [op |-> "processVideo", counter |-> "ProcessedImages", type |-> "video_processed",
       inDir |-> TRUE, relPath |-> TRUE, dirErr |-> FALSE],
      [op |-> "processVideo", counter |-> "SkippedImages", type |-> "skipped",
       inDir |-> FALSE, relPath |-> FALSE, dirErr |-> FALSE],
      [op |-> "processVideo", counter |-> "none", type |-> "",
       inDir |-> FALSE, relPath |-> FALSE, dirErr |-> FALSE],
      [op |-> "copyFile", counter |-> "CopiedFiles", type |-> "copied",
       inDir |-> TRUE, relPath |-> TRUE, dirErr |-> FALSE],
      [op |-> "copyFile", counter |-> "CopiedFiles", type |-> "copied",
       inDir |-> TRUE, relPath |-> TRUE, dirErr |-> TRUE] }

\* The outcomes the pipeline specification draws from, one of each shape of
\* effect on the statistics: recorded in both scopes, recorded globally only,
\* not recorded, recorded and fatal to the directory.
RunOutcomes ==
    { o \in Outcomes :
        \/ o.op = "processImage" /\ o.type \in {"processed", ""}
        \/ o.op = "processVideo" /\ o.type = "skipped"
        \/ o.op = "copyFile" /\ o.dirErr }

\* the FileInfo appended for file k of directory d
FileInfo(d, k, o) ==
    [Path |-> IF o.relPath THEN <<d, k>> ELSE <<k>>, Type |-> o.type]

\* the statistics after the routing of file k of directory d ended with o;
\* live: the dirStats pointer still points into the current stats
RecordOutcome(st, d, k, o, live) ==
    LET rec == FileInfo(d, k, o)
        global == IF o.counter = "none" THEN st
                  ELSE [st EXCEPT ![o.counter] = @ + 1, !.Files = Append(@, rec)]
    IN  IF o.counter # "none" /\ o.inDir /\ live
        THEN [global EXCEPT !.DirectoryStats[d] =
                 [@ EXCEPT ![o.counter] = @ + 1, !.Files = Append(@, rec)]]
        ELSE global

\* the (dirPath, dirStats) pairs the report loop hands to
\* generateDirectoryHTMLReport
ReportedStats(st, ext) ==
    IF ext THEN {}
    ELSE { st.DirectoryStats[d] :
             d \in { e \in DOMAIN st.DirectoryStats :
                       Len(st.DirectoryStats[e].Files) > 0 } }

(* ------------------------------- main() -------------------------------- *)
\* The trees the pipeline runs on: each directory inside the previous one,
\* none hidden (0 directories: the root is processed itself).
RunTrees ==
    { t \in UNION { TreesOfSize(n) : n \in 0..MaxDirs } :
        \A i \in 1..t.n : t.parent[i] = i - 1 /\ ~t.hidden[i] }

Concurrent == mainPc \in {"launch", "wait"}
Alive == mainPc \in {"seq", "launch", "wait"}
TaskIds == DOMAIN tasks
Finished(t) == t.pc \in {"done", "failed"}

\* one loop iteration (sequential) or goroutine (concurrent) for directory d
\*   nEntries the entries of the directory that get past the filters of the
\*            loop (subdirectories, "._" names, the extension filter and
\*            entries whose Info() fails are passed over without any effect)
\*   idx      how many of them have been routed
\*   live     the dirStats pointer of the current file still points into stats
\*   tmp      the value of stats.TotalFiles read by stats.TotalFiles++
\*   counted  (history) files of the directory counted so far
\*   okRecs   (history) the records of the files whose routing ended without error
NewTask(d) ==
    [dir |-> d, pc |-> "idle", result |-> "none", nEntries |-> 0, idx |-> 0,
     tmp |-> 0, live |-> FALSE, counted |-> 0, okRecs |-> << >>]

\* len(uncompletedDirs) <= 1 || config.Multithread <= 1
SingleThreaded(unc, n) == Len(unc) <= 1 \/ n <= 1

\* main() from flag.Parse to the choice of the processing mode: load the
\* progress; when it is empty scan, seed and save; collect the uncompleted
\* directories.  A failing scan or initial save is fatal.
StartRun ==
    /\ mainPc = "start"
    /\ \E n \in 1..MaxThreads, t \in RunTrees, scanOk \in BOOLEAN, saveOk \in BOOLEAN :
         LET loaded == loadProgress(fileExists, fileDirs)
             found == scanDirectories(t)
             directories == IF Len(found) = 0 THEN <<RootPath>> ELSE found
             seeded == [k \in 1..Len(directories) |-> DirectoryProgress(directories[k])]
             scans == Len(loaded) = 0
             fatal == scans /\ (~scanOk \/ ~saveOk)
             trk == IF scans /\ scanOk THEN seeded ELSE loaded
             unc == IF fatal THEN << >> ELSE getUncompletedDirectories(trk)
         IN  /\ multithread' = n
             /\ tracker' = trk
             /\ fileExists' = (fileExists \/ (scans /\ scanOk /\ saveOk))
             /\ fileDirs' = IF scans /\ scanOk /\ saveOk THEN seeded ELSE fileDirs
             /\ uncompletedDirs' = unc
             /\ tasks' = [i \in 1..Len(unc) |-> NewTask(unc[i])]
             /\ saves' = IF fatal THEN "failed" ELSE "all"
             /\ mainPc' = IF fatal THEN "fatal"
                          ELSE IF Len(unc) = 0 THEN "finished"
                          ELSE IF SingleThreaded(unc, n) THEN "seq"
                          ELSE "launch"
    /\ UNCHANGED <<semaphore, progressMutex, statsMutex, stats, succeeded,
                   prevClean, scanVars, mediaVars,
                   prevDirs, outDirs,
                   detailVars>>

\* sequential mode: the range loop reaches directory i
SeqBegin(i) ==
    /\ mainPc = "seq"
    /\ tasks[i].pc = "idle"
    /\ \A j \in 1..(i - 1) : Finished(tasks[j])
    /\ tasks' = [tasks EXCEPT ![i].pc = "start"]
    /\ UNCHANGED <<mainPc, multithread, fileExists, fileDirs, tracker,
                   uncompletedDirs, semaphore, progressMutex, statsMutex, stats,
                   succeeded, saves, prevClean, scanVars, mediaVars,
                   prevDirs, outDirs,
                   detailVars>>

\* concurrent mode: the loop that starts one goroutine per uncompleted
\* directory (wg.Add(1); go func(dir, index)).  A goroutine that has not run
\* yet has had no effect, so all of them are started in one step.
Launch ==
    /\ mainPc = "launch"
    /\ tasks' = [i \in TaskIds |-> [tasks[i] EXCEPT !.pc = "sem"]]
    /\ mainPc' = "wait"
    /\ UNCHANGED <<multithread, fileExists, fileDirs, tracker, uncompletedDirs,
                   semaphore, progressMutex, statsMutex, stats, succeeded, saves,
                   prevClean, scanVars, mediaVars,
                   prevDirs, outDirs,
                   detailVars>>

\* a channel whose sends never block
SemaphoreCanSend_Unbounded(count, capacity) == TRUE
\* a send on the buffered channel proceeds while the buffer is not full
SemaphoreCanSend(count, capacity) == count < capacity

\* semaphore <- struct{}{}
Acquire(i) ==
    /\ Concurrent
    /\ tasks[i].pc = "sem"
    /\ SemaphoreCanSend(semaphore, multithread)
    /\ semaphore' = semaphore + 1
    /\ tasks' = [tasks EXCEPT ![i].pc = "start"]
    /\ UNCHANGED <<mainPc, multithread, fileExists, fileDirs, tracker,
                   uncompletedDirs, progressMutex, statsMutex, stats, succeeded,
                   saves, prevClean, scanVars, mediaVars,
                   prevDirs, outDirs,
                   detailVars>>

\* where a task goes when processImages has returned: on an error the
\* sequential loop continues and the goroutine returns (its deferred calls
\* run); otherwise the directory is marked, under progressMutex when concurrent
\* (a caller that goes on to mark the directory whatever processImages returned)
NextAfterProcessImages_IgnoreErr(concurrent, err) ==
    IF concurrent THEN "plock" ELSE "mark"
\* (a goroutine whose error path returns without running its deferred calls)
NextAfterProcessImages_NoRelease(concurrent, err) ==
    IF err THEN "failed"
    ELSE (IF concurrent THEN "plock" ELSE "mark")
NextAfterProcessImages(concurrent, err) ==
    IF err THEN (IF concurrent THEN "release" ELSE "failed")
    ELSE (IF concurrent THEN "plock" ELSE "mark")

Returned(t, err) ==
    [t EXCEPT !.pc = NextAfterProcessImages(Concurrent, err),
              !.result = IF err THEN "err" ELSE "ok",
              !.live = FALSE, !.tmp = 0]

(* ---------------------------- processImages ---------------------------- *)
\* Head of the loop over the entries, for a task that has routed t.idx of
\* them: after the last one processImages returns nil, otherwise the next
\* entry is looked up in the statistics.
LoopHead(t) ==
    IF t.idx = t.nEntries THEN Returned(t, FALSE) ELSE [t EXCEPT !.pc = "lookup"]

\* the entries listed so far by the tasks of this run
RECURSIVE SumEntries(_)
SumEntries(n) == IF n = 0 THEN 0 ELSE tasks[n].nEntries + SumEntries(n - 1)

Succeeded(t) == IF t.result = "ok" THEN {t.dir} ELSE {}

\* Entry of processImages: os.MkdirAll of the output root and os.ReadDir of
\* the directory.  Either may fail, which returns the error; otherwise the
\* directory lists its entries and the loop starts.
ProcStart(i) ==
    /\ Alive
    /\ tasks[i].pc = "start"
    /\ \/ /\ RootPath \notin outDirs
          /\ tasks' = [tasks EXCEPT ![i] = Returned(tasks[i], TRUE)]
          /\ UNCHANGED <<succeeded, outDirs>>
       \/ /\ outDirs' = MkdirAll(outDirs, RootPath)
          /\ \E t \in {Returned(tasks[i], TRUE)}
                    \cup { LoopHead([tasks[i] EXCEPT !.nEntries = n]) :
                             n \in { m \in 0..MaxFiles :
                                       SumEntries(Len(tasks)) + m <= MaxEntries } } :
               /\ tasks' = [tasks EXCEPT ![i] = t]
               /\ succeeded' = succeeded \cup Succeeded(t)
    /\ UNCHANGED <<mainPc, multithread, fileExists, fileDirs, tracker,
                   uncompletedDirs, semaphore, progressMutex, statsMutex, stats,
                   saves, prevClean, scanVars, mediaVars,
                   prevDirs,
                   detailVars>>

\* if _, exists := stats.DirectoryStats[dirPath]; !exists { ... }
\* dirStats := stats.DirectoryStats[dirPath]
\* and the read of stats.TotalFiles by stats.TotalFiles++
Lookup(i) ==
    /\ Alive
    /\ tasks[i].pc = "lookup"
    /\ LET d == tasks[i].dir
       IN  stats' = IF d \in DOMAIN stats.DirectoryStats THEN stats
                    ELSE [stats EXCEPT !.DirectoryStats = (d :> NewDirectoryStats(d)) @@ @]
    /\ tasks' = [tasks EXCEPT ![i] =
                   [@ EXCEPT !.pc = "wr", !.live = TRUE, !.tmp = stats.TotalFiles]]
    /\ UNCHANGED <<mainPc, multithread, fileExists, fileDirs, tracker,
                   uncompletedDirs, semaphore, progressMutex, statsMutex,
                   succeeded, saves, prevClean, scanVars, mediaVars,
                   prevDirs, outDirs,
                   detailVars>>

\* os.MkdirAll(outputDir) fails for the entry that was just looked up:
\* processImages returns the error before the entry is counted
MkdirFail(i) ==
    /\ Alive
    /\ tasks[i].pc = "wr"
    /\ tasks' = [tasks EXCEPT ![i] = Returned(tasks[i], TRUE)]
    /\ UNCHANGED <<mainPc, multithread, fileExists, fileDirs, tracker,
                   uncompletedDirs, semaphore, progressMutex, statsMutex, stats,
                   succeeded, saves, prevClean, scanVars, mediaVars,
                   prevDirs, outDirs,
                   detailVars>>

\* os.MkdirAll(outputDir) succeeds; stats.TotalFiles++ writes the value it
\* read, incremented; dirStats.TotalFiles++ goes through the pointer, into the
\* current stats only while that pointer is live
WriteTotal(i) ==
    /\ Alive
    /\ tasks[i].pc = "wr"
    /\ LET d == tasks[i].dir
           global == [stats EXCEPT !.TotalFiles = tasks[i].tmp + 1]
       IN  stats' = IF tasks[i].live
                    THEN [global EXCEPT !.DirectoryStats[d].TotalFiles = @ + 1]
                    ELSE global
    /\ tasks' = [tasks EXCEPT ![i] = [@ EXCEPT !.pc = "pipe", !.tmp = 0,
                                                 !.counted = @ + 1]]
    /\ outDirs' = MkdirAll(outDirs, tasks[i].dir)
    /\ UNCHANGED <<mainPc, multithread, fileExists, fileDirs, tracker,
                   uncompletedDirs, semaphore, progressMutex, statsMutex,
                   succeeded, saves, prevClean, scanVars, mediaVars,
                   prevDirs,
                   detailVars>>

\* the routing of the counted file: processVideo, processImage or copyFile,
\* then the head of the loop again
Pipeline(i) ==
    /\ Alive
    /\ tasks[i].pc = "pipe"
    /\ \E o \in RunOutcomes :
         LET t == tasks[i]
             k == t.idx + 1
             ok == o.counter # "none" /\ ~o.dirErr
             after == [t EXCEPT !.idx = k, !.live = FALSE,
                                !.okRecs = IF ok THEN Append(@, FileInfo(t.dir, k, o))
                                           ELSE @]
         IN  /\ stats' = RecordOutcome(stats, t.dir, k, o, t.live)
             /\ LET u == IF o.dirErr THEN Returned(after, TRUE) ELSE LoopHead(after)
                IN  /\ tasks' = [tasks EXCEPT ![i] = u]
                    /\ succeeded' = succeeded \cup Succeeded(u)
    /\ UNCHANGED <<mainPc, multithread, fileExists, fileDirs, tracker,
                   uncompletedDirs, semaphore, progressMutex, statsMutex, saves,
                   prevClean, scanVars, mediaVars,
                   prevDirs, outDirs,
                   detailVars>>

(* ------------------- after a directory was processed ------------------- *)
\* a lock that is always granted
ProgressMutexCanLock_Always(holder) == TRUE
\* sync.Mutex: Lock() proceeds when no goroutine holds the mutex
ProgressMutexCanLock(holder) == holder = 0

\* progressMutex.Lock()
PLock(i) ==
    /\ Concurrent
    /\ tasks[i].pc = "plock"
    /\ ProgressMutexCanLock(progressMutex)
    /\ progressMutex' = i
    /\ tasks' = [tasks EXCEPT ![i].pc = "mark"]
    /\ UNCHANGED <<mainPc, multithread, fileExists, fileDirs, tracker,
                   uncompletedDirs, semaphore, statsMutex, stats, succeeded,
                   saves, prevClean, scanVars, mediaVars,
                   prevDirs, outDirs,
                   detailVars>>

\* tracker.markDirectoryCompleted(dir); tracker.saveProgress(progressFile):
\* the file holds the tracker's entries, or the write fails, which is only
\* logged; then progressMutex.Unlock() when concurrent
MarkAndSave(i) ==
    /\ Alive
    /\ tasks[i].pc = "mark"
    /\ tracker' = markDirectoryCompleted(tracker, tasks[i].dir)
    /\ \E ok \in BOOLEAN :
         /\ fileDirs' = IF ok THEN tracker' ELSE fileDirs
         /\ saves' = IF ~ok THEN "failed" ELSE IF saves = "all" THEN "all" ELSE "last"
    /\ tasks' = [tasks EXCEPT ![i].pc = IF Concurrent THEN "slock" ELSE "report"]
    /\ progressMutex' = IF Concurrent THEN 0 ELSE progressMutex
    /\ UNCHANGED <<mainPc, multithread, fileExists, uncompletedDirs, semaphore,
                   statsMutex, stats, succeeded, prevClean, scanVars, mediaVars,
                   prevDirs, outDirs,
                   detailVars>>

\* statsMutex.Lock()
SLock(i) ==
    /\ Concurrent
    /\ tasks[i].pc = "slock"
    /\ statsMutex = 0
    /\ statsMutex' = i
    /\ tasks' = [tasks EXCEPT ![i].pc = "report"]
    /\ UNCHANGED <<mainPc, multithread, fileExists, fileDirs, tracker,
                   uncompletedDirs, semaphore, progressMutex, stats, succeeded,
                   saves, prevClean, scanVars, mediaVars,
                   prevDirs, outDirs,
                   detailVars>>

\* The loop over stats.DirectoryStats hands ReportedStats(stats, ext) to the
\* report generator (ext: config.Extensions != ""); then
\* stats = ProcessStats{DirectoryStats: make(map[string]*DirectoryStats)}:
\* every dirStats pointer held by a task now points outside stats; then
\* statsMutex.Unlock() when concurrent.
ReportAndReset(i) ==
    /\ Alive
    /\ tasks[i].pc = "report"
    /\ stats' = EmptyStats
    /\ tasks' = [j \in TaskIds |->
                   IF j = i
                   THEN [tasks[j] EXCEPT !.pc = IF Concurrent THEN "release" ELSE "done"]
                   ELSE [tasks[j] EXCEPT !.live = FALSE]]
    /\ statsMutex' = IF Concurrent THEN 0 ELSE statsMutex
    /\ UNCHANGED <<mainPc, multithread, fileExists, fileDirs, tracker,
                   uncompletedDirs, semaphore, progressMutex, succeeded, saves,
                   prevClean, scanVars, mediaVars,
                   prevDirs, outDirs,
                   detailVars>>

\* the deferred calls of the goroutine: <-semaphore, wg.Done()
Release(i) ==
    /\ Concurrent
    /\ tasks[i].pc = "release"
    /\ semaphore' = semaphore - 1
    /\ tasks' = [tasks EXCEPT ![i].pc = IF tasks[i].result = "ok" THEN "done" ELSE "failed"]
    /\ UNCHANGED <<mainPc, multithread, fileExists, fileDirs, tracker,
                   uncompletedDirs, progressMutex, statsMutex, stats, succeeded,
                   saves, prevClean, scanVars, mediaVars,
                   prevDirs, outDirs,
                   detailVars>>

\* wg.Wait() returns, or the sequential loop ends
Finish ==
    /\ mainPc \in {"seq", "wait"}
    /\ \A i \in TaskIds : Finished(tasks[i])
    /\ mainPc' = "finished"
    /\ UNCHANGED <<multithread, fileExists, fileDirs, tracker, uncompletedDirs,
                   tasks, semaphore, progressMutex, statsMutex, stats, succeeded,
                   saves, prevClean, scanVars, mediaVars,
                   prevDirs, outDirs,
                   detailVars>>

\* The lookup in stats.DirectoryStats is not synchronized.  A goroutine that
\* inserts its directory while another goroutine looks up the map, or ranges
\* over it in the report loop, may be stopped by the Go runtime ("fatal error:
\* concurrent map writes" / "concurrent map read and map write"), which ends
\* the process.
Crash ==
    /\ Concurrent
    /\ \E i \in TaskIds, j \in TaskIds :
         /\ i # j
         /\ tasks[i].pc = "lookup"
         /\ tasks[i].dir \notin DOMAIN stats.DirectoryStats
         /\ tasks[j].pc \in {"lookup", "report"}
    /\ mainPc' = "crashed"
    /\ UNCHANGED <<multithread, fileExists, fileDirs, tracker, uncompletedDirs,
                   tasks, semaphore, progressMutex, statsMutex, stats, succeeded,
                   saves, prevClean, scanVars, mediaVars,
                   prevDirs, outDirs,
                   detailVars>>

\* the program is started again on the same input and output directories
Restart ==
    /\ mainPc \in {"finished", "fatal", "crashed"}
    /\ mainPc' = "start"
    /\ prevClean' = /\ mainPc = "finished"
                    /\ \A i \in TaskIds : tasks[i].result = "ok"
                    /\ saves = "all"
    /\ tracker' = << >>
    /\ uncompletedDirs' = << >>
    /\ tasks' = << >>
    /\ semaphore' = 0
    /\ progressMutex' = 0
    /\ statsMutex' = 0
    /\ stats' = EmptyStats
    /\ saves' = "all"
    /\ UNCHANGED <<multithread, fileExists, fileDirs, succeeded, scanVars, mediaVars,
                   prevDirs, outDirs,
                   detailVars>>

(* --------------------------- specifications ---------------------------- *)
RunInit ==
    /\ mainPc = "start"
    /\ multithread = 1
    /\ fileExists = FALSE
    /\ fileDirs = << >>
    /\ tracker = << >>
    /\ uncompletedDirs = << >>
    /\ tasks = << >>
    /\ semaphore = 0
    /\ progressMutex = 0
    /\ statsMutex = 0
    /\ stats = EmptyStats
    /\ succeeded = {}
    /\ saves = "all"
    /\ prevClean = FALSE
    /\ outDirs = {RootPath}

\* the scanner and the media pipelines at rest
ScanOff ==
    /\ scanTree = [n |-> 0, parent |-> << >>, hidden |-> << >>]
    /\ scanPc = "off"
    /\ scanOut = << >>

MediaOff ==
    /\ flags = << >>
    /\ config = << >>
    /\ dims = << >>
    /\ fnPc = "off"
    /\ fnOut = << >>

FileOff ==
    /\ fileCfg = << >>
    /\ dirEntries = << >>
    /\ filePc = "off"
    /\ fileIdx = 0
    /\ fileStats = << >>
    /\ outFiles = {}
    /\ fileHist = << >>

OrientOff ==
    /\ img = << >>
    /\ orientation = 0
    /\ orientPc = "off"
    /\ orientOut = << >>

ExifOff ==
    /\ jpegIn = << >>
    /\ encoded = << >>
    /\ exifPc = "off"
    /\ exifData = << >>
    /\ cleanedExifData = << >>
    /\ exifOut = << >>

MarkOff ==
    /\ markPc = "off"
    /\ markArg = << >>

DetailOff == FileOff /\ OrientOff /\ ExifOff /\ MarkOff

Init ==
    /\ ScanOff
    /\ MediaOff
    /\ DetailOff
    /\ prevDirs = << >>
    /\ RunInit

Next ==
    \/ StartRun
    \/ \E i \in TaskIds : SeqBegin(i)
    \/ Launch
    \/ \E i \in TaskIds : Acquire(i)
    \/ \E i \in TaskIds : ProcStart(i)
    \/ \E i \in TaskIds : Lookup(i)
    \/ \E i \in TaskIds : MkdirFail(i)
    \/ \E i \in TaskIds : WriteTotal(i)
    \/ \E i \in TaskIds : Pipeline(i)
    \/ \E i \in TaskIds : PLock(i)
    \/ \E i \in TaskIds : MarkAndSave(i)
    \/ \E i \in TaskIds : SLock(i)
    \/ \E i \in TaskIds : ReportAndReset(i)
    \/ \E i \in TaskIds : Release(i)
    \/ Finish
    \/ Crash
    \/ Restart

Spec == Init /\ [][Next]_vars

\* the scanner applied to a tree
InitScan ==
    /\ DetailOff
    /\ scanTree \in Trees
    /\ scanPc = "ready"
    /\ scanOut = << >>
    /\ MediaOff
    /\ prevDirs = << >>
    /\ RunInit

ScanStep ==
    /\ scanPc = "ready"
    /\ scanOut' = scanDirectories(scanTree)
    /\ scanPc' = "done"
    /\ UNCHANGED <<scanTree, runVars, mediaVars, prevDirs,
                   detailVars>>

NextScan == ScanStep

SpecScan == InitScan /\ [][NextScan]_vars

(* ------------------------- dry run (-fake-scan) ------------------------ *)
\* a dry run that hands the listed file to copyFile
FakeScanEntry_Copies(st, d, k, live) ==
    RecordOutcome(st, d, k,
                  CHOOSE o \in Outcomes : o.op = "copyFile" /\ ~o.dirErr, live)
\* processImages, if config.FakeScan: the file is printed with its count and
\* percentage and its size is added to TotalInputSize; no pipeline is called
\* and no counter or record of the statistics changes
FakeScanEntry(st, d, k, live) == st

\* the progress files a dry run can find for the tree: the entries main seeds
\* for it, any of them completed
ProgressFilesOf(t) ==
    LET dirs == UnitsOfWork(scanDirectories(t))
    IN  { [k \in 1..Len(dirs) |->
             IF k \in done
             THEN [path |-> dirs[k], completed |-> TRUE, timestamp |-> "now"]
             ELSE DirectoryProgress(dirs[k])] : done \in SUBSET (1..Len(dirs)) }

\* main() with -fake-scan, from flag.Parse to the choice of the processing
\* mode: load the progress; when it is empty scan and seed the tracker, which
\* is not saved; collect the uncompleted directories
FakeStart ==
    /\ mainPc = "start"
    /\ \E n \in 1..MaxThreads, scanOk \in BOOLEAN :
         LET loaded == loadProgress(fileExists, fileDirs)
             directories == UnitsOfWork(scanDirectories(scanTree))
             seeded == [k \in 1..Len(directories) |-> DirectoryProgress(directories[k])]
             scans == Len(loaded) = 0
             fatal == scans /\ ~scanOk
             trk == IF scans /\ scanOk THEN seeded ELSE loaded
             unc == IF fatal THEN << >> ELSE getUncompletedDirectories(trk)
         IN  /\ multithread' = n
             /\ tracker' = trk
             /\ uncompletedDirs' = unc
             /\ tasks' = [i \in 1..Len(unc) |-> NewTask(unc[i])]
             /\ mainPc' = IF fatal THEN "fatal"
                          ELSE IF Len(unc) = 0 THEN "finished"
                          ELSE IF SingleThreaded(unc, n) THEN "seq"
                          ELSE "launch"
    /\ UNCHANGED <<fileExists, fileDirs, semaphore, progressMutex, statsMutex,
                   stats, succeeded, saves, prevClean, scanVars, mediaVars,
                   prevDirs, outDirs,
                   detailVars>>

\* the listed file in dry-run mode, then the head of the loop again
FakeEntry(i) ==
    /\ Alive
    /\ tasks[i].pc = "pipe"
    /\ LET t == tasks[i]
           k == t.idx + 1
           u == LoopHead([t EXCEPT !.idx = k, !.live = FALSE])
       IN  /\ stats' = FakeScanEntry(stats, t.dir, k, t.live)
           /\ tasks' = [tasks EXCEPT ![i] = u]
           /\ succeeded' = succeeded \cup Succeeded(u)
    /\ UNCHANGED <<mainPc, multithread, fileExists, fileDirs, tracker,
                   uncompletedDirs, semaphore, progressMutex, statsMutex, saves,
                   prevClean, scanVars, mediaVars, prevDirs, outDirs,
                   detailVars>>

\* processImages returned nil: "Completed directory" is printed; nothing is
\* marked, saved or reported
FakeAfter(i) ==
    /\ Alive
    /\ tasks[i].pc \in {"plock", "mark"}
    /\ tasks' = [tasks EXCEPT ![i].pc = IF Concurrent THEN "release" ELSE "done"]
    /\ UNCHANGED <<mainPc, multithread, fileExists, fileDirs, tracker,
                   uncompletedDirs, semaphore, progressMutex, statsMutex, stats,
                   succeeded, saves, prevClean, scanVars, mediaVars, prevDirs, outDirs,
                   detailVars>>

\* the dry run is repeated on the same input and output directories;
\* prevDirs keeps the directories the run that ended had listed
FakeRestart ==
    /\ mainPc \in {"finished", "fatal", "crashed"}
    /\ mainPc' = "start"
    /\ prevDirs' = IF mainPc = "fatal" THEN prevDirs
                   ELSE [known |-> TRUE, dirs |-> uncompletedDirs]
    /\ tracker' = << >>
    /\ uncompletedDirs' = << >>
    /\ tasks' = << >>
    /\ semaphore' = 0
    /\ stats' = EmptyStats
    /\ UNCHANGED <<multithread, fileExists, fileDirs, progressMutex, statsMutex,
                   succeeded, saves, prevClean, scanVars, mediaVars, outDirs,
                   detailVars>>

InitFake ==
    /\ DetailOff
    /\ scanTree \in RunTrees
    /\ scanPc = "off"
    /\ scanOut = << >>
    /\ MediaOff
    /\ prevDirs = [known |-> FALSE, dirs |-> << >>]
    /\ mainPc = "start"
    /\ multithread = 1
    /\ \/ fileExists = FALSE /\ fileDirs = << >>
       \/ fileExists = TRUE /\ fileDirs \in ProgressFilesOf(scanTree)
    /\ tracker = << >>
    /\ uncompletedDirs = << >>
    /\ tasks = << >>
    /\ semaphore = 0
    /\ progressMutex = 0
    /\ statsMutex = 0
    /\ stats = EmptyStats
    /\ succeeded = {}
    /\ saves = "all"
    /\ prevClean = FALSE
    /\ outDirs \in {{}, {RootPath}}
    /\ fileExists => RootPath \in outDirs

NextFake ==
    \/ FakeStart
    \/ \E i \in TaskIds : SeqBegin(i)
    \/ Launch
    \/ \E i \in TaskIds : Acquire(i)
    \/ \E i \in TaskIds : ProcStart(i)
    \/ \E i \in TaskIds : Lookup(i)
    \/ \E i \in TaskIds : MkdirFail(i)
    \/ \E i \in TaskIds : WriteTotal(i)
    \/ \E i \in TaskIds : FakeEntry(i)
    \/ \E i \in TaskIds : FakeAfter(i)
    \/ \E i \in TaskIds : Release(i)
    \/ Finish
    \/ Crash
    \/ FakeRestart

SpecFake == InitFake /\ [][NextFake]_vars

(* -------------------- flags, thresholds and sizes ---------------------- *)
\* -size is held in tenths: ScalingRatio10 = 5 is -size 0.5
RatioFlags == {0, 3, 5, 10, 20, 110}
WidthFlags == {0, 13, 800, 1920, 4000}
ThresholdFlags == {0, 1000, 4000}

\* the smart defaults of applySmartDefaults and the width it takes for the
\* border between downscaling and upscaling
DownscaleThresholdWidth == 1920
DownscaleThresholdHeight == 1080
UpscaleThresholdWidth == 3840
UpscaleThresholdHeight == 2160
CommonWidth == 1920
\* the resolution getVideoResolution returns, and processVideo's default
VideoWidth == 1920
VideoHeight == 1080

\* widths and heights of media files: small ones, and the ones at and next
\* to every threshold that can be in force
ImageWidths ==
    {3} \cup { t + e : t \in (ThresholdFlags \ {0})
                         \cup {DownscaleThresholdWidth, UpscaleThresholdWidth},
                     e \in {-1, 0, 1} }
ImageHeights ==
    {2, 27} \cup { t + e : t \in (ThresholdFlags \ {0})
                             \cup {DownscaleThresholdHeight, UpscaleThresholdHeight},
                         e \in {-1, 0, 1} }

Flags ==
    [ScalingRatio10 : RatioFlags, Width : WidthFlags,
     ThresholdWidth : ThresholdFlags, ThresholdHeight : ThresholdFlags,
     IgnoreSmartLimit : BOOLEAN, FakeScan : BOOLEAN]

\* a variant that replaces the thresholds the user gave as well
applySmartDefaults_Override(c) ==
    IF c.ScalingRatio10 > 0 /\ c.ScalingRatio10 < 10
    THEN [c EXCEPT !.ThresholdWidth = DownscaleThresholdWidth,
                   !.ThresholdHeight = DownscaleThresholdHeight]
    ELSE [c EXCEPT !.ThresholdWidth = UpscaleThresholdWidth,
                   !.ThresholdHeight = UpscaleThresholdHeight]
\* applySmartDefaults
applySmartDefaults(c) ==
    LET isDownscaling == IF c.ScalingRatio10 > 0 THEN c.ScalingRatio10 < 10
                         ELSE IF c.Width > 0 THEN c.Width <= CommonWidth
                         ELSE FALSE
        isUpscaling == IF c.ScalingRatio10 > 0 THEN c.ScalingRatio10 > 10
                       ELSE IF c.Width > 0 THEN c.Width > CommonWidth
                       ELSE FALSE
    IN  IF isDownscaling
        THEN [c EXCEPT
                !.ThresholdWidth = IF @ = 0 THEN DownscaleThresholdWidth ELSE @,
                !.ThresholdHeight = IF @ = 0 THEN DownscaleThresholdHeight ELSE @]
        ELSE IF isUpscaling
        THEN [c EXCEPT
                !.ThresholdWidth = IF @ = 0 THEN UpscaleThresholdWidth ELSE @,
                !.ThresholdHeight = IF @ = 0 THEN UpscaleThresholdHeight ELSE @]
        ELSE c

\* validateConfig, for an input and an output directory that are given and
\* exist: the error it returns, or the configuration it leaves
validateConfig(c) ==
    LET sizeError ==
            /\ ~c.FakeScan
            /\ \/ c.ScalingRatio10 = 0 /\ c.Width = 0
               \/ c.ScalingRatio10 # 0 /\ c.Width # 0
               \/ c.ScalingRatio10 # 0 /\ (c.ScalingRatio10 <= 0 \/ c.ScalingRatio10 > 100)
               \/ c.Width # 0 /\ c.Width <= 0
        thresholdError == c.ThresholdWidth < 0 \/ c.ThresholdHeight < 0
    IN  IF sizeError \/ thresholdError THEN [err |-> TRUE, config |-> c]
        ELSE [err |-> FALSE,
              config |-> IF ~c.IgnoreSmartLimit THEN applySmartDefaults(c) ELSE c]

\* a variant that skips the threshold size itself
shouldSkipImage_Inclusive(c, width, height) ==
    IF c.ScalingRatio10 > 10
    THEN \/ c.ThresholdWidth > 0 /\ width >= c.ThresholdWidth
         \/ c.ThresholdHeight > 0 /\ height >= c.ThresholdHeight
    ELSE \/ c.ThresholdWidth > 0 /\ width <= c.ThresholdWidth
         \/ c.ThresholdHeight > 0 /\ height <= c.ThresholdHeight
\* shouldSkipImage
shouldSkipImage(c, width, height) ==
    IF c.ScalingRatio10 > 10
    THEN \/ c.ThresholdWidth > 0 /\ width > c.ThresholdWidth
         \/ c.ThresholdHeight > 0 /\ height > c.ThresholdHeight
    ELSE IF c.ScalingRatio10 < 10
    THEN \/ c.ThresholdWidth > 0 /\ width < c.ThresholdWidth
         \/ c.ThresholdHeight > 0 /\ height < c.ThresholdHeight
    ELSE FALSE

\* shouldSkipVideo
shouldSkipVideo(c, width, height) ==
    IF c.IgnoreSmartLimit THEN FALSE
    ELSE \/ c.ThresholdWidth > 0 /\ width > c.ThresholdWidth
         \/ c.ThresholdHeight > 0 /\ height > c.ThresholdHeight

\* int(float64(x) * config.ScalingRatio): for the ratios of RatioFlags and the
\* sizes above the float64 product truncates to the exact quotient
TruncateRatio(x, ratio10) == (x * ratio10) \div 10

\* The (originalWidth, originalHeight, config.Width) among the sizes above for
\* which float64(originalHeight) * (float64(config.Width) /
\* float64(originalWidth)) is the float64 just below the exact integer
\* quotient, so that int() yields one less: 13/3 rounds down and 27 times it
\* is 116.99999999999999.
Float64Shortfall == { <<3, 27, 13>> }

\* int(float64(originalHeight) * (float64(config.Width) / float64(originalWidth)))
TruncateWidth(w, h, target) ==
    IF <<w, h, target>> \in Float64Shortfall
    THEN (h * target) \div w - 1
    ELSE (h * target) \div w

\* a variant that rounds the height to the nearest integer
calculateNewSize_Round(c, w, h) ==
    IF c.Width > 0 THEN <<c.Width, (2 * h * c.Width + w) \div (2 * w)>>
    ELSE IF c.ScalingRatio10 > 0
    THEN <<TruncateRatio(w, c.ScalingRatio10), TruncateRatio(h, c.ScalingRatio10)>>
    ELSE <<w, h>>
\* calculateNewSize
calculateNewSize(c, w, h) ==
    IF c.Width > 0 THEN <<c.Width, TruncateWidth(w, h, c.Width)>>
    ELSE IF c.ScalingRatio10 > 0
    THEN <<TruncateRatio(w, c.ScalingRatio10), TruncateRatio(h, c.ScalingRatio10)>>
    ELSE <<w, h>>

\* getVideoResolution: the probe's error, or a fixed resolution whatever the
\* probe reported
getVideoResolution(probeOk, w, h) ==
    IF probeOk THEN [err |-> FALSE, width |-> VideoWidth, height |-> VideoHeight]
    ELSE [err |-> TRUE, width |-> 0, height |-> 0]

\* processVideo: originalWidth, originalHeight
VideoDimensions(probeOk, w, h) ==
    LET r == getVideoResolution(probeOk, w, h)
    IN  IF r.err THEN <<VideoWidth, VideoHeight>> ELSE <<r.width, r.height>>

\* processVideo: the scale filter, as <<width, height>> (-1: keep the aspect
\* ratio, << >>: no filter), for an empty -video-resolution
VideoScaleFilter(c, vw, vh) ==
    IF c.ScalingRatio10 > 0
    THEN <<TruncateRatio(vw, c.ScalingRatio10), TruncateRatio(vh, c.ScalingRatio10)>>
    ELSE IF c.Width > 0 THEN <<c.Width, -1>>
    ELSE << >>

\* the statistics after one file, file 1 of directory d, was counted and
\* then routed to the image or the video pipeline, which skipped it or
\* processed it without error
MediaDir == <<1>>
StatsAfterOne(op, skipped) ==
    LET counted == [EmptyStats EXCEPT
                       !.TotalFiles = 1,
                       !.DirectoryStats =
                           (MediaDir :> [NewDirectoryStats(MediaDir) EXCEPT !.TotalFiles = 1])]
        o == CHOOSE x \in Outcomes :
                /\ x.op = op
                /\ x.counter = IF skipped THEN "SkippedImages" ELSE "ProcessedImages"
    IN  RecordOutcome(counted, MediaDir, 1, o, TRUE)

InitMedia ==
    /\ DetailOff
    /\ flags \in Flags
    /\ config = flags
    /\ dims \in [w : ImageWidths, h : ImageHeights, probeOk : BOOLEAN]
    /\ fnPc = "flags"
    /\ fnOut = << >>
    /\ ScanOff
    /\ prevDirs = << >>
    /\ RunInit

\* main: validateConfig; an error is fatal
Validate ==
    /\ fnPc = "flags"
    /\ LET v == validateConfig(flags)
       IN  /\ config' = v.config
           /\ fnPc' = IF v.err THEN "rejected" ELSE "validated"
    /\ UNCHANGED <<flags, dims, fnOut, scanVars, runVars, prevDirs,
                   detailVars>>

\* processImage and processVideo on the file, outside dry-run mode: the skip
\* decisions, the new size, the video's scale filter and the statistics
Classify ==
    /\ fnPc = "validated"
    /\ ~config.FakeScan
    /\ LET vd == VideoDimensions(dims.probeOk, dims.w, dims.h)
           skipImage == shouldSkipImage(config, dims.w, dims.h)
           skipVideo == shouldSkipVideo(config, vd[1], vd[2])
       IN  fnOut' = [skipImage |-> skipImage,
                     newSize |-> calculateNewSize(config, dims.w, dims.h),
                     videoDim |-> vd,
                     skipVideo |-> skipVideo,
                     videoScale |-> VideoScaleFilter(config, vd[1], vd[2]),
                     imageStats |-> StatsAfterOne("processImage", skipImage),
                     videoStats |-> StatsAfterOne("processVideo", skipVideo)]
    /\ fnPc' = "done"
    /\ UNCHANGED <<flags, config, dims, scanVars, runVars, prevDirs,
                   detailVars>>

NextMedia ==
    \/ Validate
    \/ Classify

SpecMedia == InitMedia /\ [][NextMedia]_vars

(* ------------- processImages on the entries of one directory ---------- *)
\* File names and the -ext list are sequences of one-character strings.
\* strings.ToLower, on the letters that occur
LowerOf(ch) ==
    CASE ch = "G" -> "g" [] ch = "J" -> "j" [] ch = "M" -> "m" [] ch = "N" -> "n"
      [] ch = "O" -> "o" [] ch = "P" -> "p" [] ch = "V" -> "v" [] OTHER -> ch
ToLower(str) == [i \in 1..Len(str) |-> LowerOf(str[i])]

\* filepath.Ext of a path whose last element is name: the suffix that begins
\* at the last dot, empty if there is none
Ext(name) ==
    LET dots == { i \in 1..Len(name) : name[i] = "." }
    IN  IF dots = {} THEN << >>
        ELSE SubSeq(name, CHOOSE i \in dots : \A j \in dots : j <= i, Len(name))

HasPrefix(str, prefix) ==
    Len(str) >= Len(prefix) /\ SubSeq(str, 1, Len(prefix)) = prefix
TrimPrefix(str, prefix) ==
    IF HasPrefix(str, prefix) THEN SubSeq(str, Len(prefix) + 1, Len(str)) ELSE str
TrimSuffix(str, suffix) ==
    IF Len(str) >= Len(suffix)
       /\ SubSeq(str, Len(str) - Len(suffix) + 1, Len(str)) = suffix
    THEN SubSeq(str, 1, Len(str) - Len(suffix)) ELSE str

\* strings.TrimSpace
RECURSIVE TrimSpace(_)
TrimSpace(str) ==
    IF Len(str) = 0 THEN str
    ELSE IF Head(str) = " " THEN TrimSpace(Tail(str))
    ELSE IF str[Len(str)] = " " THEN TrimSpace(SubSeq(str, 1, Len(str) - 1))
    ELSE str

\* strings.Split(str, ","): the pieces between the commas, empty ones included
RECURSIVE Split(_)
Split(str) ==
    LET commas == { i \in 1..Len(str) : str[i] = "," }
    IN  IF commas = {} THEN <<str>>
        ELSE LET c == CHOOSE i \in commas : \A j \in commas : i <= j
             IN  <<SubSeq(str, 1, c - 1)>> \o Split(SubSeq(str, c + 1, Len(str)))

\* a filter that compares the extension as it is written
shouldProcessExtension_CaseSensitive(extensions, name) ==
    \/ extensions = << >>
    \/ \E k \in 1..Len(Split(extensions)) :
         TrimSpace(Split(extensions)[k]) = TrimPrefix(Ext(name), <<".">>)
\* shouldProcessExtension
shouldProcessExtension(extensions, name) ==
    \/ extensions = << >>
    \/ LET allowedExts == Split(ToLower(extensions))
           fileExt == ToLower(TrimPrefix(Ext(name), <<".">>))
       IN  \E k \in 1..Len(allowedExts) : TrimSpace(allowedExts[k]) = fileExt

\* isVideoFile: supportedFormats
VideoFormats ==
    { <<".", "m", "p", "4">>, <<".", "a", "v", "i">>, <<".", "m", "k", "v">>,
      <<".", "m", "o", "v">>, <<".", "w", "m", "v">>, <<".", "f", "l", "v">>,
      <<".", "w", "e", "b", "m">>, <<".", "m", "4", "v">> }
isVideoFile(name) == ToLower(Ext(name)) \in VideoFormats

\* processImages: isImageSupported
ImageFormats ==
    { <<".", "j", "p", "g">>, <<".", "j", "p", "e", "g">>,
      <<".", "h", "e", "i", "c">>, <<".", "p", "n", "g">> }
isImageSupported(name) == ToLower(Ext(name)) \in ImageFormats

\* processImages: if isVideoSupported ... else if isImageSupported ... else
Route(cfg, name) ==
    IF isVideoFile(name) /\ ~cfg.VideoDisabled THEN "video"
    ELSE IF isImageSupported(name) THEN "image" ELSE "copy"

\* processImages: outputPath, as the file name below the output directory
OutputName(name) ==
    IF ToLower(Ext(name)) = <<".", "h", "e", "i", "c">>
    THEN TrimSuffix(name, Ext(name)) \o <<".", "j", "p", "g">>
    ELSE name

\* the format of the data an input file holds, which is that of its name
FormatOf(name) ==
    LET ext == ToLower(Ext(name))
    IN  IF ext \in {<<".", "j", "p", "g">>, <<".", "j", "p", "e", "g">>} THEN "jpeg"
        ELSE IF ext = <<".", "h", "e", "i", "c">> THEN "heic"
        ELSE IF ext = <<".", "p", "n", "g">> THEN "png"
        ELSE IF ext \in VideoFormats THEN "video"
        ELSE "other"

\* the names of the entries of the directory
EntryNames ==
    { <<"a", ".", "j", "p", "g">>, <<"a", ".", "h", "e", "i", "c">>,
      <<"b", ".", "J", "P", "G">>,
      <<"c", ".", "h", "e", "i", "c">>, <<"d", ".", "p", "n", "g">>,
      <<"e", ".", "m", "p", "4">>, <<"f", ".", "M", "O", "V">>,
      <<"g", ".", "t", "x", "t">>, <<"h">>,
      <<".", "_", "a", ".", "j", "p", "g">> }
\* file sizes in bytes
FileSizes == {1, 2}
\* entries of the directory: files, and a subdirectory
Entries ==
    [name : EntryNames, isDir : {FALSE}, size : FileSizes]
        \cup {[name |-> <<"s", "u", "b">>, isDir |-> TRUE, size |-> 1]}
\* entries os.ReadDir returns for the directory
MaxListing == 2
\* the byte of a character of these names
CharCode(ch) ==
    CASE ch = "." -> 46
      [] ch = "4" -> 52
      [] ch = "G" -> 71
      [] ch = "J" -> 74
      [] ch = "M" -> 77
      [] ch = "O" -> 79
      [] ch = "P" -> 80
      [] ch = "V" -> 86
      [] ch = "_" -> 95
      [] ch = "a" -> 97
      [] ch = "b" -> 98
      [] ch = "c" -> 99
      [] ch = "d" -> 100
      [] ch = "e" -> 101
      [] ch = "f" -> 102
      [] ch = "g" -> 103
      [] ch = "h" -> 104
      [] ch = "i" -> 105
      [] ch = "j" -> 106
      [] ch = "m" -> 109
      [] ch = "n" -> 110
      [] ch = "p" -> 112
      [] ch = "s" -> 115
      [] ch = "t" -> 116
      [] ch = "u" -> 117
      [] ch = "x" -> 120
\* a < b as Go compares strings, byte by byte
RECURSIVE NameLess(_, _)
NameLess(a, b) ==
    IF Len(b) = 0 THEN FALSE
    ELSE IF Len(a) = 0 THEN TRUE
    ELSE IF a[1] # b[1] THEN CharCode(a[1]) < CharCode(b[1])
    ELSE NameLess(Tail(a), Tail(b))
\* values of -ext
ExtensionFlags ==
    { << >>, <<"j", "p", "g">>, <<"J", "P", "G", ",", " ", "p", "n", "g">>,
      <<"h", "e", "i", "c", ",", "m", "p", "4">>, <<".", "j", "p", "g">>,
      <<"t", "x", "t", ",">> }

\* the path of the directory relative to config.InputDir
RelDir == <<"2", "0", "1", "9">>
RelPath(name) == <<RelDir, name>>
\* filepath.Base(inputPath)
BasePath(name) == <<name>>

\* float64(outputSize) / float64(inputSize), as the fraction in lowest terms
RECURSIVE GCD(_, _)
GCD(a, b) == IF b = 0 THEN a ELSE GCD(b, a % b)
\* a ratio computed the other way round
CompressionRatio_Inverse(outputSize, inputSize) ==
    <<inputSize \div GCD(outputSize, inputSize), outputSize \div GCD(outputSize, inputSize)>>
CompressionRatio(outputSize, inputSize) ==
    <<outputSize \div GCD(outputSize, inputSize), inputSize \div GCD(outputSize, inputSize)>>
\* the constant 1.0
RatioOne == <<1, 1>>

\* ProcessStats / DirectoryStats: the fields both have
EmptyScope ==
    [TotalFiles |-> 0, ProcessedImages |-> 0, CopiedFiles |-> 0, SkippedImages |-> 0,
     TotalOutputSize |-> 0, Files |-> << >>]

\* counter++, TotalOutputSize += outputSize, Files = append(Files, fileInfo)
Account(scope, counter, outputSize, fileInfo) ==
    [scope EXCEPT ![counter] = @ + 1,
                  !.TotalOutputSize = @ + outputSize,
                  !.Files = Append(@, fileInfo)]

\* copyFile: the destination is not created; it is created and the copy
\* breaks off; the copy is complete and os.Chtimes fails; all succeed
CopyResults == {"nofile", "partial", "notime", "ok"}
\* the output files after copyFile(src named name, dst)
AfterCopy(files, name, result) ==
    LET others == { f \in files : f.name # OutputName(name) }
    IN  IF result = "nofile" THEN files
        ELSE IF result = "partial"
        THEN others \cup {[name |-> OutputName(name), format |-> "partial"]}
        ELSE others \cup {[name |-> OutputName(name), format |-> FormatOf(name)]}
\* os.WriteFile(outputPath, finalImageData): JPEG data
AfterWrite(files, name) ==
    { f \in files : f.name # OutputName(name) }
        \cup {[name |-> OutputName(name), format |-> "jpeg"]}

\* what the loop did with an entry
\*   route   dir | hidden | filtered | noinfo | mkdir | video | image | copy
\*   result  how the pipeline ended ("" while it runs or when none was called)
\*   err     the pipeline returned an error
\*   logged  the error was printed
\*   calls   the transcoder runs of processVideo
Passed(e, route) ==
    [name |-> e.name, size |-> e.size, route |-> route, result |-> "",
     err |-> FALSE, logged |-> FALSE, calls |-> << >>]

InitFile ==
    /\ fileCfg \in [Extensions : ExtensionFlags, VideoDisabled : BOOLEAN]
    /\ dirEntries \in UNION { [1..n -> Entries] : n \in 1..MaxListing }
    /\ \A i \in 1..Len(dirEntries), j \in 1..Len(dirEntries) :
         i < j => NameLess(dirEntries[i].name, dirEntries[j].name)
    /\ filePc = "loop"
    /\ fileIdx = 0
    /\ fileStats = [global |-> EmptyScope, dir |-> EmptyScope]
    /\ outFiles = {}
    /\ fileHist = << >>
    /\ ScanOff
    /\ MediaOff
    /\ OrientOff
    /\ ExifOff
    /\ MarkOff
    /\ prevDirs = << >>
    /\ RunInit

\* the second loop of processImages at its next entry, up to the call of a
\* pipeline: the entry is passed over (a subdirectory, a "._" name, the
\* extension filter, a failing entry.Info()), or os.MkdirAll fails and
\* processImages returns the error, or the file is counted and routed
NextEntry ==
    /\ filePc = "loop"
    /\ fileIdx < Len(dirEntries)
    /\ LET e == dirEntries[fileIdx + 1]
           over(route) == /\ fileHist' = Append(fileHist, Passed(e, route))
                          /\ fileIdx' = fileIdx + 1
                          /\ UNCHANGED <<filePc, fileStats>>
       IN  IF e.isDir THEN over("dir")
           ELSE IF HasPrefix(e.name, <<".", "_">>) THEN over("hidden")
           ELSE IF ~shouldProcessExtension(fileCfg.Extensions, e.name) THEN over("filtered")
           ELSE \/ over("noinfo")
                \/ /\ fileHist' = Append(fileHist, [Passed(e, "mkdir") EXCEPT !.err = TRUE])
                   /\ fileIdx' = fileIdx + 1
                   /\ filePc' = "returned"
                   /\ UNCHANGED fileStats
                \/ /\ fileHist' = Append(fileHist, Passed(e, Route(fileCfg, e.name)))
                   /\ filePc' = Route(fileCfg, e.name)
                   /\ fileStats' = [fileStats EXCEPT !.global.TotalFiles = @ + 1,
                                                     !.dir.TotalFiles = @ + 1]
                   /\ UNCHANGED fileIdx
    /\ UNCHANGED <<fileCfg, dirEntries, outFiles, orientVars, exifVars, markVars, scanVars,
                   mediaVars, runVars, prevDirs>>

\* the pipeline of the current entry ended: the history gets its result, an
\* error is printed and the loop goes on
Ended(result, err) ==
    /\ fileHist' = [fileHist EXCEPT ![Len(fileHist)] =
                      [@ EXCEPT !.result = result, !.err = err, !.logged = err]]
    /\ fileIdx' = fileIdx + 1
    /\ filePc' = "loop"

\* the else branch: the file is recorded as copied, then copyFile; its error
\* is returned by processImages
CopyUnsupported ==
    /\ filePc = "copy"
    /\ LET e == dirEntries[fileIdx + 1]
           fileInfo == [Path |-> RelPath(e.name), Type |-> "copied",
                        InputSize |-> e.size, OutputSize |-> e.size,
                        CompressionRatio |-> RatioOne]
       IN  /\ fileStats' = [global |-> Account(fileStats.global, "CopiedFiles", e.size, fileInfo),
                            dir |-> Account(fileStats.dir, "CopiedFiles", e.size, fileInfo)]
           /\ \E r \in CopyResults :
                /\ outFiles' = AfterCopy(outFiles, e.name, r)
                /\ fileHist' = [fileHist EXCEPT ![Len(fileHist)] =
                                  [@ EXCEPT !.result = "copied", !.err = (r # "ok")]]
                /\ filePc' = IF r = "ok" THEN "loop" ELSE "returned"
           /\ fileIdx' = fileIdx + 1
    /\ UNCHANGED <<fileCfg, dirEntries, orientVars, exifVars, markVars, scanVars, mediaVars,
                   runVars, prevDirs>>

\* processImage, called for the current entry.  Reading, decoding or encoding
\* fails; the threshold policy skips the image, which is recorded and then
\* copied; the output is written in part or in full, and then os.Chtimes
\* fails; or the image is written and recorded.
ProcessImage ==
    /\ filePc = "image"
    /\ LET e == dirEntries[fileIdx + 1]
           record(type, outputSize, ratio) ==
               [Path |-> RelPath(e.name), Type |-> type, InputSize |-> e.size,
                OutputSize |-> outputSize, CompressionRatio |-> ratio]
       IN  \/ /\ Ended("failed", TRUE)
              /\ UNCHANGED <<fileStats, outFiles>>
           \/ \E r \in CopyResults :
                /\ fileStats' =
                     [global |-> Account(fileStats.global, "SkippedImages", e.size,
                                         record("skipped", e.size, RatioOne)),
                      dir |-> Account(fileStats.dir, "SkippedImages", e.size,
                                      record("skipped", e.size, RatioOne))]
                /\ outFiles' = AfterCopy(outFiles, e.name, r)
                /\ Ended("skipped", r # "ok")
           \/ /\ outFiles' = { f \in outFiles : f.name # OutputName(e.name) }
                                \cup {[name |-> OutputName(e.name), format |-> "partial"]}
              /\ Ended("failed", TRUE)
              /\ UNCHANGED fileStats
           \/ /\ outFiles' = AfterWrite(outFiles, e.name)
              /\ Ended("failed", TRUE)
              /\ UNCHANGED fileStats
           \/ \E outputSize \in FileSizes :
                /\ outFiles' = AfterWrite(outFiles, e.name)
                /\ fileStats' =
                     [global |-> Account(fileStats.global, "ProcessedImages", outputSize,
                                         record("processed", outputSize,
                                                CompressionRatio(outputSize, e.size))),
                      dir |-> Account(fileStats.dir, "ProcessedImages", outputSize,
                                      record("processed", outputSize,
                                             CompressionRatio(outputSize, e.size)))]
                /\ Ended("processed", FALSE)
    /\ UNCHANGED <<fileCfg, dirEntries, orientVars, exifVars, markVars, scanVars, mediaVars,
                   runVars, prevDirs>>

\* one run of the transcoder
\*   streams  the streams mapped into the output
\*   audio    the value of "c:a" ("": not set), bitrate that of "b:a"
\*   removed  os.Remove(outputPath) was called before the run
Transcode(streams, audio, bitrate, removed, ok) ==
    [streams |-> streams, audio |-> audio, bitrate |-> bitrate,
     removed |-> removed, ok |-> ok]

\* the second run of processVideo: kwargs["c:a"] = "aac", kwargs["b:a"] =
\* "128k", and output.Output(outputPath, kwargs), the call that maps the
\* video stream only
RetryCall(ok) == Transcode({"video"}, "aac", "128k", TRUE, ok)

\* the first run: with an audio stream both streams are mapped and the audio
\* is copied, otherwise the video stream alone is mapped
FirstCall(hasAudio, ok) ==
    IF hasAudio THEN Transcode({"video", "audio"}, "copy", "", FALSE, ok)
    ELSE Transcode({"video"}, "", "", FALSE, ok)

\* the output file a transcoder run leaves: a video, or what a failed run
\* wrote, which may be nothing
AfterTranscode(files, name, ok, leaves) ==
    LET others == { f \in files : f.name # OutputName(name) }
    IN  IF ok THEN others \cup {[name |-> OutputName(name), format |-> "video"]}
        ELSE IF leaves THEN others \cup {[name |-> OutputName(name), format |-> "partial"]}
        ELSE files
\* os.Remove(outputPath)
AfterRemove(files, name) == { f \in files : f.name # OutputName(name) }

\* processVideo, called for the current entry.  The threshold policy skips
\* the video, which is recorded in the global statistics and then copied; or
\* os.MkdirAll fails; or the transcoder runs, a second time if the first run
\* failed and hasAudioStream holds; then os.Stat, the statistics, os.Chtimes.
ProcessVideo ==
    /\ filePc = "video"
    /\ LET e == dirEntries[fileIdx + 1]
           ended(result, err, calls) ==
               /\ fileHist' = [fileHist EXCEPT ![Len(fileHist)] =
                                 [@ EXCEPT !.result = result, !.err = err,
                                           !.logged = err, !.calls = calls]]
               /\ fileIdx' = fileIdx + 1
               /\ filePc' = "loop"
           recorded(outputSize) ==
               LET fileInfo == [Path |-> RelPath(e.name), Type |-> "video_processed",
                                InputSize |-> e.size, OutputSize |-> outputSize,
                                CompressionRatio |-> CompressionRatio(outputSize, e.size)]
               IN  [global |-> Account(fileStats.global, "ProcessedImages", outputSize, fileInfo),
                    dir |-> Account(fileStats.dir, "ProcessedImages", outputSize, fileInfo)]
           \* from os.Stat(outputPath) on, after the run(s) calls
           finish(files, calls) ==
               /\ outFiles' = files
               /\ \/ /\ ended("failed", TRUE, calls)
                     /\ UNCHANGED fileStats
                  \/ \E outputSize \in FileSizes, timeOk \in BOOLEAN :
                       /\ fileStats' = recorded(outputSize)
                       /\ ended("video_processed", ~timeOk, calls)
       IN  \/ \E r \in CopyResults :
                /\ fileStats' =
                     [fileStats EXCEPT !.global =
                        Account(@, "SkippedImages", e.size,
                                [Path |-> BasePath(e.name), Type |-> "skipped",
                                 InputSize |-> e.size, OutputSize |-> e.size,
                                 CompressionRatio |-> RatioOne])]
                /\ outFiles' = AfterCopy(outFiles, e.name, r)
                /\ ended("skipped", r # "ok", << >>)
           \/ /\ ended("failed", TRUE, << >>)
              /\ UNCHANGED <<fileStats, outFiles>>
           \/ \E hasAudio \in BOOLEAN, ok1 \in BOOLEAN, leaves1 \in BOOLEAN :
                LET first == FirstCall(hasAudio, ok1)
                    files1 == AfterTranscode(outFiles, e.name, ok1, leaves1)
                IN  IF ok1 THEN finish(files1, <<first>>)
                    ELSE IF ~hasAudio
                    THEN /\ outFiles' = files1
                         /\ ended("failed", TRUE, <<first>>)
                         /\ UNCHANGED fileStats
                    ELSE \E ok2 \in BOOLEAN, leaves2 \in BOOLEAN :
                           LET files2 == AfterTranscode(AfterRemove(files1, e.name),
                                                        e.name, ok2, leaves2)
                           IN  IF ok2 THEN finish(files2, <<first, RetryCall(ok2)>>)
                               ELSE /\ outFiles' = files2
                                    /\ ended("failed", TRUE, <<first, RetryCall(ok2)>>)
                                    /\ UNCHANGED fileStats
    /\ UNCHANGED <<fileCfg, dirEntries, orientVars, exifVars, markVars, scanVars, mediaVars,
                   runVars, prevDirs>>

\* the loop is past the last entry: processImages returns nil
ReturnNil ==
    /\ filePc = "loop"
    /\ fileIdx = Len(dirEntries)
    /\ filePc' = "returned"
    /\ UNCHANGED <<fileCfg, dirEntries, fileIdx, fileStats, outFiles, fileHist,
                   orientVars, exifVars, markVars, scanVars, mediaVars, runVars, prevDirs>>

NextFile ==
    \/ NextEntry
    \/ CopyUnsupported
    \/ ProcessImage
    \/ ProcessVideo
    \/ ReturnNil

SpecFile == InitFile /\ [][NextFile]_vars

(* ------------------------- EXIF orientation ---------------------------- *)
\* largest width and height of a decoded image
MaxSide == 3

\* An image is its width w, its height h and its pixels px, a function of
\* <<x, y>> with 0 <= x < w and 0 <= y < h.  A pixel is the colour id it
\* shows and the colour model it is stored in.
Points(w, h) == (0..(w - 1)) \X (0..(h - 1))
\* the image a decoder returns: every pixel shows a colour of its own
Decoded(w, h) ==
    [w |-> w, h |-> h,
     px |-> [p \in Points(w, h) |-> [id |-> p, model |-> "decoder"]]]
\* image.NewRGBA: every pixel transparent black
ZeroPixel == [id |-> <<-1, -1>>, model |-> "RGBA"]
\* dst.Set(x, y, c): the colour converted to the RGBA model
SetRGBA(c) == [id |-> c.id, model |-> "RGBA"]

\* dst := image.NewRGBA(image.Rect(0, 0, dw, dh)), then for every <<x, y>> of
\* src: dst.Set(to[<<x, y>>], src.At(x, y))
Draw(src, dw, dh, to) ==
    [w |-> dw, h |-> dh,
     px |-> [q \in Points(dw, dh) |->
               LET from == { p \in Points(src.w, src.h) : to[p] = q }
               IN  IF from = {} THEN ZeroPixel
                   ELSE SetRGBA(src.px[CHOOSE p \in from : TRUE])]]

\* rotate90CCW: dst.Set(y, w-1-x, src.At(x, y))
rotate90CCW(src) ==
    Draw(src, src.h, src.w,
         [p \in Points(src.w, src.h) |-> <<p[2], src.w - 1 - p[1]>>])
\* a clockwise rotation that turns the other way
rotate90CW_Reversed(src) == rotate90CCW(src)
\* rotate90CW: dst.Set(h-1-y, x, src.At(x, y))
rotate90CW(src) ==
    Draw(src, src.h, src.w,
         [p \in Points(src.w, src.h) |-> <<src.h - 1 - p[2], p[1]>>])
\* rotate180: dst.Set(w-1-x, h-1-y, src.At(x, y))
rotate180(src) ==
    Draw(src, src.w, src.h,
         [p \in Points(src.w, src.h) |-> <<src.w - 1 - p[1], src.h - 1 - p[2]>>])
\* flipHorizontal: dst.Set(w-1-x, y, src.At(x, y))
flipHorizontal(src) ==
    Draw(src, src.w, src.h,
         [p \in Points(src.w, src.h) |-> <<src.w - 1 - p[1], p[2]>>])
\* flipVertical: dst.Set(x, h-1-y, src.At(x, y))
flipVertical(src) ==
    Draw(src, src.w, src.h,
         [p \in Points(src.w, src.h) |-> <<p[1], src.h - 1 - p[2]>>])

\* a correction that returns the stored image whatever the tag
applyEXIFOrientation_None(image, tag) == image
\* applyEXIFOrientation, for the value of the orientation tag (0: the EXIF
\* data cannot be decoded, or holds no readable orientation tag)
applyEXIFOrientation(image, tag) ==
    CASE tag = 1 -> image
      [] tag = 2 -> flipHorizontal(image)
      [] tag = 3 -> rotate180(image)
      [] tag = 4 -> flipVertical(image)
      [] tag = 5 -> flipHorizontal(rotate90CW(image))
      [] tag = 6 -> rotate90CW(image)
      [] tag = 7 -> flipHorizontal(rotate90CCW(image))
      [] tag = 8 -> rotate90CCW(image)
      [] OTHER -> image

\* values of the orientation tag: none, 1..8, and one outside the range
OrientationTags == 0..9

\* the flags of the runs that measure these images: a ratio below or above
\* 1 or a target width, thresholds given by the user, smart limits ignored
OrientFlags ==
    [ScalingRatio10 : {0, 5, 20}, Width : {0, 2}, ThresholdWidth : {2},
     ThresholdHeight : {0, 3}, IgnoreSmartLimit : {TRUE}, FakeScan : {FALSE}]
\* config as validateConfig leaves it for the flags it accepts
OrientConfigs ==
    { validateConfig(f).config : f \in { g \in OrientFlags : ~validateConfig(g).err } }

InitOrient ==
    /\ img \in { Decoded(w, h) : w \in 1..MaxSide, h \in 1..MaxSide }
    /\ orientation \in OrientationTags
    /\ orientPc = "decoded"
    /\ orientOut = << >>
    /\ ScanOff
    /\ flags = << >>
    /\ config \in OrientConfigs
    /\ dims = << >>
    /\ fnPc = "off"
    /\ fnOut = << >>
    /\ FileOff
    /\ ExifOff
    /\ MarkOff
    /\ prevDirs = << >>
    /\ RunInit

\* processImage: img = applyEXIFOrientation(img, fileData)
ApplyOrientation ==
    /\ orientPc = "decoded"
    /\ orientOut' = applyEXIFOrientation(img, orientation)
    /\ orientPc' = "oriented"
    /\ UNCHANGED <<img, orientation, fileVars, exifVars, markVars, scanVars, mediaVars,
                   runVars, prevDirs>>

\* processImage: bounds := img.Bounds() of the corrected image, then
\* shouldSkipImage and calculateNewSize on its width and height
Measure ==
    /\ orientPc = "oriented"
    /\ LET originalWidth == orientOut.w
           originalHeight == orientOut.h
       IN  fnOut' = [width |-> originalWidth, height |-> originalHeight,
                     skip |-> shouldSkipImage(config, originalWidth, originalHeight),
                     newSize |-> calculateNewSize(config, originalWidth,
                                                  originalHeight)]
    /\ orientPc' = "measured"
    /\ UNCHANGED <<img, orientation, orientOut, flags, config, dims, fnPc,
                   fileVars, exifVars, markVars, scanVars, runVars, prevDirs>>

NextOrient ==
    \/ ApplyOrientation
    \/ Measure

SpecOrient == InitOrient /\ [][NextOrient]_vars

(* ------------------------- EXIF metadata bytes ------------------------- *)
\* A file, a segment, a buffer: a sequence of bytes 0..255.
SOI == <<255, 216>>
\* []byte("Exif\x00\x00")
ExifIdentifier == <<69, 120, 105, 102, 0, 0>>
\* byte(n >> 8) and byte(n & 0xFF) of a uint16
HiByte(n) == (n \div 256) % 256
LoByte(n) == n % 256

\* --- the files handed to processImage ---
ByteOrders == {"MM", "II"}
TiffHeader(bo) == IF bo = "MM" THEN <<77, 77, 0, 42>> ELSE <<73, 73, 42, 0>>
U16Bytes(bo, n) ==
    IF bo = "MM" THEN <<HiByte(n), LoByte(n)>> ELSE <<LoByte(n), HiByte(n)>>
U32Bytes(bo, n) ==
    IF bo = "MM" THEN <<0, 0, HiByte(n), LoByte(n)>>
    ELSE <<LoByte(n), HiByte(n), 0, 0>>
\* one 12-byte IFD entry: tag, type, count, value
IfdEntry(bo, tag, type, count, value) ==
    U16Bytes(bo, tag) \o U16Bytes(bo, type) \o U32Bytes(bo, count) \o value
\* Orientation, 0x0112, one SHORT
OrientationEntry(bo, v) == IfdEntry(bo, 274, 3, 1, U16Bytes(bo, v) \o <<0, 0>>)
\* Make, 0x010F, four ASCII bytes "abc\0"
MakeEntry(bo) == IfdEntry(bo, 271, 2, 4, <<97, 98, 99, 0>>)
\* the TIFF data of an EXIF segment: header, offset of the IFD, the IFD with
\* an optional Make entry and an optional Orientation entry (v = 0: none),
\* offset of the next IFD
Tiff(bo, make, v) ==
    TiffHeader(bo) \o U32Bytes(bo, 8)
      \o U16Bytes(bo, (IF make THEN 1 ELSE 0) + (IF v = 0 THEN 0 ELSE 1))
      \o (IF make THEN MakeEntry(bo) ELSE << >>)
      \o (IF v = 0 THEN << >> ELSE OrientationEntry(bo, v))
      \o <<0, 0, 0, 0>>
\* a JPEG segment: marker, big-endian length of length field and payload
Segment(marker, payload) ==
    <<255, marker, HiByte(Len(payload) + 2), LoByte(Len(payload) + 2)>>
      \o payload
\* APP0 "JFIF\0"
App0 == Segment(224, <<74, 70, 73, 70, 0>>)
\* what follows the application segments: a table, then the end of image
ScanData == <<255, 219, 0, 2, 255, 217>>
\* the first bytes of a HEIC file
NotJpeg == <<0, 0, 0, 24, 102, 116, 121, 112>>
JpegInputs ==
    { SOI \o (IF app0 THEN App0 ELSE << >>)
          \o Segment(225, ExifIdentifier \o Tiff(bo, make, v)) \o ScanData :
        app0 \in BOOLEAN, bo \in ByteOrders, make \in BOOLEAN, v \in 0..8 }
    \cup { SOI \o ScanData, SOI \o App0 \o ScanData, NotJpeg }
\* the bytes handed to insertEXIFCorrectly: two encodings, and two buffers
\* its guard turns away
EncodedOutputs ==
    { SOI \o ScanData, SOI \o <<255, 217>>, SOI, <<0, 1, 2, 3, 4>> }

\* --- extractEXIF ---
\* exif.Decode succeeds: there is an APP1 segment "Exif\0\0" with a TIFF header
exifDecodes(data) ==
    \E i \in 1..(Len(data) - 13) :
        /\ data[i] = 255 /\ data[i + 1] = 225
        /\ SubSeq(data, i + 4, i + 9) = ExifIdentifier
        /\ SubSeq(data, i + 10, i + 13) \in { TiffHeader(bo) : bo \in ByteOrders }
\* reader.Read(buf), buf of two bytes, pos bytes read so far
Read2(data, pos, buf) ==
    IF pos >= Len(data) THEN [err |-> TRUE, buf |-> buf, pos |-> pos]
    ELSE IF pos + 1 = Len(data)
         THEN [err |-> FALSE, buf |-> <<data[pos + 1], buf[2]>>, pos |-> pos + 1]
         ELSE [err |-> FALSE, buf |-> <<data[pos + 1], data[pos + 2]>>,
               pos |-> pos + 2]
\* the loop "Find APP1 segment"; << >> is (nil, err)
RECURSIVE FindAPP1(_, _, _)
FindAPP1(data, pos, buf) ==
    LET r == Read2(data, pos, buf)
        l == Read2(data, r.pos, r.buf)
        length == l.buf[1] * 256 + l.buf[2]
        avail == Len(data) - l.pos
    IN  IF r.err THEN << >>
        ELSE IF r.buf[1] # 255 THEN FindAPP1(data, r.pos, r.buf)
        ELSE IF r.buf[2] = 225
             THEN IF l.err \/ avail <= 0 THEN << >>
                  ELSE <<255, 225, l.buf[1], l.buf[2]>>
                         \o [i \in 1..(length - 2) |->
                               IF i <= avail THEN data[l.pos + i] ELSE 0]
        ELSE IF r.buf[2] \in 224..239
             THEN IF l.err THEN << >>
                  ELSE FindAPP1(data, l.pos + length - 2, l.buf)
        ELSE << >>
extractEXIF(data) ==
    IF Len(data) < 2 \/ data[1] # 255 \/ data[2] # 216 THEN << >>
    ELSE IF ~exifDecodes(data) THEN << >>
    ELSE FindAPP1(data, 2, SOI)

\* --- clearOrientationTag ---
\* the positions i (from 0) at which the loop finds 01 12 or 12 01 and has
\* i+8 < len
TagHits(data) ==
    { i \in 0..(Len(data) - 5) :
        /\ \/ data[i + 1] = 1 /\ data[i + 2] = 18
           \/ data[i + 1] = 18 /\ data[i + 2] = 1
        /\ i + 8 < Len(data) }
clearOrientationTag(data) ==
    IF Len(data) < 10 \/ TagHits(data) = {} THEN data
    ELSE LET i == CHOOSE h \in TagHits(data) : \A k \in TagHits(data) : h <= k
         IN  [data EXCEPT ![i + 7] = 0, ![i + 8] = 1]

\* --- insertEXIFCorrectly ---
insertEXIFCorrectly(jpegData, data) ==
    IF Len(jpegData) < 4 \/ jpegData[1] # 255 \/ jpegData[2] # 216
    THEN jpegData
    ELSE LET segmentLength == (2 + Len(ExifIdentifier) + Len(data)) % 65536
             app1Segment == <<255, 225>>
                              \o <<HiByte(segmentLength), LoByte(segmentLength)>>
                              \o ExifIdentifier \o data
         IN  SubSeq(jpegData, 1, 2) \o app1Segment
               \o SubSeq(jpegData, 3, Len(jpegData))

InitExif ==
    /\ jpegIn \in JpegInputs
    /\ encoded \in EncodedOutputs
    /\ exifPc = "read"
    /\ exifData = << >>
    /\ cleanedExifData = << >>
    /\ exifOut = << >>
    /\ ScanOff
    /\ MediaOff
    /\ FileOff
    /\ OrientOff
    /\ MarkOff
    /\ prevDirs = << >>
    /\ RunInit

ExifIdle == UNCHANGED <<jpegIn, encoded, fileVars, orientVars, markVars, scanVars,
                        mediaVars, runVars, prevDirs>>

\* processImage: exifData, err = extractEXIF(fileData); a failure is a warning
Extract ==
    /\ exifPc = "read"
    /\ exifData' = extractEXIF(jpegIn)
    /\ exifPc' = IF exifData' = << >> THEN "none" ELSE "extracted"
    /\ UNCHANGED <<cleanedExifData, exifOut>>
    /\ ExifIdle

\* processImage: cleanedExifData := clearOrientationTag(exifData)
Clear ==
    /\ exifPc = "extracted"
    /\ cleanedExifData' = clearOrientationTag(exifData)
    /\ exifPc' = "cleaned"
    /\ UNCHANGED <<exifData, exifOut>>
    /\ ExifIdle

\* processImage: finalImageData = insertEXIFCorrectly(finalImageData,
\* cleanedExifData)
Insert ==
    /\ exifPc = "cleaned"
    /\ exifOut' = insertEXIFCorrectly(encoded, cleanedExifData)
    /\ exifPc' = "written"
    /\ UNCHANGED <<exifData, cleanedExifData>>
    /\ ExifIdle

\* processImage: exifData is nil, finalImageData stays buf.Bytes()
KeepEncoded ==
    /\ exifPc = "none"
    /\ exifOut' = encoded
    /\ exifPc' = "written"
    /\ UNCHANGED <<exifData, cleanedExifData>>
    /\ ExifIdle

NextExif ==
    \/ Extract
    \/ Clear
    \/ Insert
    \/ KeepEncoded

SpecExif == InitExif /\ [][NextExif]_vars

(* ---------------------- insertEXIFCorrectly alone ---------------------- *)
\* The payloads processImage hands to insertEXIFCorrectly: what
\* clearOrientationTag makes of the segment extractEXIF returns for a JPEG
\* file (up to 65537 bytes) and of the bytes goheif.ExtractExif returns for
\* a HEIC file (TIFF data of any length): here short ones, and TIFF data
\* followed by zeros, as a thumbnail area, up to 65527 and to 65528 bytes.
InsertPayloads ==
    ({ clearOrientationTag(extractEXIF(j)) : j \in JpegInputs } \ { << >> })
      \cup { clearOrientationTag(Tiff(bo, make, v)) :
                bo \in ByteOrders, make \in BOOLEAN, v \in 0..8 }
      \cup { Tiff("MM", FALSE, 0) \o [i \in 1..(n - 14) |-> 0] :
                n \in {65527, 65528} }

InitInsert ==
    /\ cleanedExifData \in InsertPayloads
    /\ encoded \in EncodedOutputs
    /\ exifPc = "cleaned"
    /\ jpegIn = << >>
    /\ exifData = << >>
    /\ exifOut = << >>
    /\ ScanOff
    /\ MediaOff
    /\ FileOff
    /\ OrientOff
    /\ MarkOff
    /\ prevDirs = << >>
    /\ RunInit

SpecInsert == InitInsert /\ [][Insert]_vars

(* --------------------- markDirectoryCompleted alone -------------------- *)
\* entries of a tracker handed to markDirectoryCompleted
MaxTracker == 3
\* the paths its entries hold, and a path none of them holds
MarkPaths == { <<1>>, <<1, 2>> }
AbsentPath == <<2>>
\* an entry as main() seeds it, or as an earlier run marked it
TrackerEntries ==
    { DirectoryProgress(p) : p \in MarkPaths }
        \cup { [path |-> p, completed |-> TRUE, timestamp |-> "before"] :
                 p \in MarkPaths }

InitMark ==
    /\ tracker \in UNION { [1..n -> TrackerEntries] : n \in 0..MaxTracker }
    /\ markArg \in MarkPaths \cup {AbsentPath}
    /\ markPc = "call"
    /\ mainPc = "start"
    /\ multithread = 1
    /\ fileExists = FALSE
    /\ fileDirs = << >>
    /\ uncompletedDirs = << >>
    /\ tasks = << >>
    /\ semaphore = 0
    /\ progressMutex = 0
    /\ statsMutex = 0
    /\ stats = EmptyStats
    /\ succeeded = {}
    /\ saves = "all"
    /\ prevClean = FALSE
    /\ outDirs = {RootPath}
    /\ prevDirs = << >>
    /\ ScanOff
    /\ MediaOff
    /\ FileOff
    /\ OrientOff
    /\ ExifOff

\* tracker.markDirectoryCompleted(dirPath)
MarkCompleted ==
    /\ markPc = "call"
    /\ tracker' = markDirectoryCompleted(tracker, markArg)
    /\ markPc' = "returned"
    /\ UNCHANGED <<markArg, mainPc, multithread, fileExists, fileDirs,
                   uncompletedDirs, tasks, semaphore, progressMutex, statsMutex,
                   stats, succeeded, saves, prevClean, outDirs, prevDirs,
                   scanVars, mediaVars, fileVars, orientVars, exifVars>>

NextMark == MarkCompleted

SpecMark == InitMark /\ [][NextMark]_vars

(* ------------------------------ properties ----------------------------- *)
\* the task holds an element of the semaphore channel
HoldsSlot(t) ==
    t.pc \in {"start", "lookup", "wr", "pipe", "plock", "mark", "slock", "report", "release"}
\* the task is inside processImages
InProcessImages(t) == t.pc \in {"start", "lookup", "wr", "pipe"}
\* the run took the concurrent branch of main()
WasConcurrent == ~SingleThreaded(uncompletedDirs, multithread)
\* what the next run would find uncompleted, given the progress file as it is
NextRunUncompleted ==
    Range(getUncompletedDirectories(loadProgress(fileExists, fileDirs)))
\* the files counted by the first n tasks of this run
RECURSIVE SumCounted(_)
SumCounted(n) == IF n = 0 THEN 0 ELSE tasks[n].counted + SumCounted(n - 1)
\* no task of this run has reset the statistics yet
NoResetYet ==
    \A i \in TaskIds : ~(tasks[i].result = "ok" /\ tasks[i].pc \in {"release", "done"})
AllCompleted(dirs) == CompletedPaths(dirs) = Range(PathsOf(dirs))

\* C1 - Resume idempotence: when the previous run processed every uncompleted
\* directory without a directory-level error and all its saves succeeded, the
\* run started next on the same progress file finds no uncompleted directory,
\* starts processing for none and ends.
C1_ResumeIdempotence ==
    prevClean /\ mainPc # "start" =>
        /\ mainPc = "finished"
        /\ uncompletedDirs = << >>
        /\ tasks = << >>

\* a second run has ended without work after a clean run over MaxDirs
\* directories, all of which are completed in the file
C1_Witness ==
    /\ prevClean
    /\ mainPc = "finished"
    /\ tasks = << >>
    /\ Len(fileDirs) = MaxDirs
    /\ AllCompleted(fileDirs)
    /\ succeeded = Range(PathsOf(fileDirs))

\* C2 - Failure policy: in both modes a directory whose processing returned an
\* error is not marked completed, is in the uncompleted list of the next run
\* and holds no lock; the error does not end the run, and when the run ends
\* every uncompleted directory has been processed and the ones that succeeded
\* are marked completed.
C2_FailurePolicy ==
    /\ \A i \in TaskIds :
         tasks[i].result = "err" =>
            /\ tasks[i].dir \notin CompletedPaths(tracker)
            /\ tasks[i].dir \in NextRunUncompleted
            /\ progressMutex # i
            /\ statsMutex # i
    /\ tasks # << >> => mainPc # "fatal"
    /\ mainPc = "finished" =>
         \A i \in TaskIds :
            /\ tasks[i].result \in {"ok", "err"}
            /\ tasks[i].result = "ok" => tasks[i].dir \in CompletedPaths(tracker)

\* a concurrent run has ended in which one directory failed on a file that
\* was counted, with a file left unprocessed, is unmarked and due again, and
\* a sibling succeeded and is marked
C2_Witness ==
    /\ mainPc = "finished"
    /\ WasConcurrent
    /\ \E i \in TaskIds, j \in TaskIds :
         /\ tasks[i].result = "err"
         /\ tasks[i].counted > 0
         /\ tasks[i].idx < tasks[i].nEntries
         /\ tasks[i].dir \in NextRunUncompleted
         /\ tasks[j].result = "ok"
         /\ tasks[j].dir \in CompletedPaths(tracker)

\* C3 - Progress lifecycle: in the tracker and in the progress file an entry
\* is completed only if processing of its directory has returned without
\* error, in this run or an earlier one; a completed entry stays completed;
\* and once seeded the sequence of entry paths does not change.
C3_LifecycleStep ==
    /\ CompletedPaths(tracker') \subseteq succeeded'
    /\ CompletedPaths(fileDirs') \subseteq succeeded'
    /\ fileExists =>
         /\ fileExists'
         /\ PathsOf(fileDirs') = PathsOf(fileDirs)
         /\ CompletedPaths(fileDirs) \subseteq CompletedPaths(fileDirs')
    /\ Alive /\ mainPc' # "start" =>
         /\ PathsOf(tracker') = PathsOf(tracker)
         /\ CompletedPaths(tracker) \subseteq CompletedPaths(tracker')

C3_ProgressLifecycle == [][C3_LifecycleStep]_vars

\* a later run has completed an entry while an entry completed by an earlier
\* run is still completed and another entry is still open
C3_Witness ==
    /\ Alive
    /\ \E k \in 1..Len(tracker) :
         /\ tracker[k].completed
         /\ tracker[k].path \notin Range(uncompletedDirs)
    /\ \E k \in 1..Len(tracker) :
         /\ tracker[k].completed
         /\ tracker[k].path \in Range(uncompletedDirs)
    /\ ~AllCompleted(tracker)

\* C4 - Bounded concurrency: in concurrent mode there is one task per
\* uncompleted directory, and at every moment at most config.Multithread of
\* them are past the semaphore, so at most that many are inside processImages.
C4_BoundedConcurrency ==
    Concurrent =>
        /\ Len(tasks) = Len(uncompletedDirs)
        /\ \A i \in TaskIds : tasks[i].dir = uncompletedDirs[i]
        /\ mainPc = "wait" => \A i \in TaskIds : tasks[i].pc # "idle"
        /\ Cardinality({ i \in TaskIds : HoldsSlot(tasks[i]) }) = semaphore
        /\ semaphore <= multithread
        /\ Cardinality({ i \in TaskIds : InProcessImages(tasks[i]) }) <= multithread

\* as many tasks as the semaphore admits are inside processImages while
\* another task waits at the semaphore
C4_Witness ==
    /\ mainPc = "wait"
    /\ multithread > 1
    /\ Cardinality({ i \in TaskIds : InProcessImages(tasks[i]) }) = multithread
    /\ \E i \in TaskIds : tasks[i].pc = "sem"

\* in concurrent mode mark-and-save is one critical section under
\* progressMutex
C5_CriticalSection ==
    Concurrent =>
        /\ Cardinality({ i \in TaskIds : tasks[i].pc = "mark" }) <= 1
        /\ \A i \in TaskIds : tasks[i].pc = "mark" <=> progressMutex = i

\* the file holds the tracker as of the last save that succeeded, with every
\* completion marked before it
C5_SnapshotHoldsEarlierMarks ==
    /\ Alive \/ mainPc = "finished" => CompletedPaths(fileDirs) \subseteq CompletedPaths(tracker)
    /\ (Alive \/ mainPc = "finished") /\ saves # "failed" => fileDirs = tracker

C6_SynchronizedStatistics ==
    Concurrent =>
        /\ \A i \in TaskIds : tasks[i].pc = "wr" => statsMutex = i
        /\ NoResetYet => stats.TotalFiles = SumCounted(Len(tasks))

\* C7 - Order-independent totals: after all tasks of a concurrent run have
\* finished, the global file counter is the sum of the files counted in the
\* directories of the run.
C7_OrderIndependentTotals ==
    mainPc = "finished" /\ WasConcurrent =>
        stats.TotalFiles = SumCounted(Len(tasks))

\* the DirectoryStats that should be handed over for the directory of task t:
\* none when no file finished, else its path, its file count and one record
\* per file whose routing finished without error
RecordTypes(recs) == [k \in 1..Len(recs) |-> recs[k].Type]
TypeCount(recs, type) == Cardinality({ k \in 1..Len(recs) : recs[k].Type = type })
HandedOver(ds, t) ==
    /\ ds.DirectoryPath = t.dir
    /\ ds.TotalFiles = t.counted
    /\ RecordTypes(ds.Files) = RecordTypes(t.okRecs)
    /\ ds.ProcessedImages = TypeCount(t.okRecs, "processed")
    /\ ds.SkippedImages = TypeCount(t.okRecs, "skipped")
    /\ ds.CopiedFiles = TypeCount(t.okRecs, "copied")

\* C8 - Complete statistics hand-off: in concurrent mode, what the report
\* loop of a finishing task hands to the report generator (no extension
\* filter) is the statistics of its directory alone, with one record per file
\* of the directory whose routing finished without error and matching counters.
C8_CompleteHandOff ==
    Concurrent =>
        \A i \in TaskIds :
            tasks[i].pc = "report" =>
                LET out == ReportedStats(stats, FALSE)
                IN  IF Len(tasks[i].okRecs) = 0 THEN out = {}
                    ELSE /\ Cardinality(out) = 1
                         /\ \A ds \in out : HandedOver(ds, tasks[i])

\* the statistics hold no count and no record, globally or for any directory
NothingRecorded(st) ==
    /\ st.TotalFiles = 0
    /\ st.ProcessedImages = 0
    /\ st.CopiedFiles = 0
    /\ st.SkippedImages = 0
    /\ st.Files = << >>
    /\ \A d \in DOMAIN st.DirectoryStats :
         /\ st.DirectoryStats[d].TotalFiles = 0
         /\ st.DirectoryStats[d].Files = << >>

\* C9 - Sequential statistics reset: in sequential mode the shared statistics
\* hold nothing whenever processing of a directory starts, whether the
\* directory before it succeeded or failed, and what is handed to the report
\* generator after a directory holds that directory only.
C9_SequentialReset ==
    mainPc = "seq" =>
        \A i \in TaskIds :
            /\ tasks[i].pc = "start" => NothingRecorded(stats)
            /\ tasks[i].pc = "report" =>
                 \A ds \in ReportedStats(stats, FALSE) : ds.DirectoryPath = tasks[i].dir

\* C10 - Deepest-first ordering: in the sequence the scanner returns, a
\* directory that lies below another one comes before it.
C10_DeepestFirst ==
    scanPc = "done" =>
        \A i \in 1..Len(scanOut), j \in 1..Len(scanOut) :
            IsBelow(scanOut[j], scanOut[i]) => j < i

\* the scanner has returned a directory that the walk reached after two
\* shallower ones and that lies below one of them, with a pruned directory
\* left out
C10_Witness ==
    /\ scanPc = "done"
    /\ Len(scanOut) = 3
    /\ Len(scanOut) < scanTree.n
    /\ WalkFrom(scanTree, 0, 1)[3] = scanOut[1]
    /\ \E i \in 2..3 : IsBelow(scanOut[1], scanOut[i])

\* C11 - Full coverage: the directories scheduled after a scan of a tree are,
\* each exactly once, the root and every directory that is neither hidden nor
\* below a hidden directory; so no directory's immediate files are left out
\* and nothing in a hidden subtree is scheduled.
C11_FullCoverage ==
    scanPc = "done" =>
        LET units == UnitsOfWork(scanOut)
        IN  /\ Range(units) =
                 { PathOf(scanTree, i) : i \in { k \in 0..scanTree.n : IsVisible(scanTree, k) } }
            /\ \A i \in 1..Len(units), j \in 1..Len(units) : units[i] = units[j] => i = j

\* the step of main() from its start to the choice of the processing mode
C12_ResumeStep ==
    mainPc = "start" /\ mainPc' # "start" =>
        /\ IF ~fileExists \/ fileDirs = << >>
           THEN \/ mainPc' = "fatal"
                \/ /\ fileExists'
                   /\ fileDirs' = tracker'
                   /\ \A k \in 1..Len(tracker') : ~tracker'[k].completed
                   /\ PathsOf(tracker') \in { UnitsOfWork(scanDirectories(t)) : t \in RunTrees }
                   /\ uncompletedDirs' = PathsOf(tracker')
           ELSE /\ mainPc' # "fatal"
                /\ fileDirs' = fileDirs
                /\ tracker' = fileDirs
                /\ uncompletedDirs' = PathsOf(SelectSeq(fileDirs, LAMBDA e : ~e.completed))
        /\ mainPc' # "fatal" =>
             /\ Len(tasks') = Len(uncompletedDirs')
             /\ \A i \in 1..Len(tasks') :
                  tasks'[i].dir = uncompletedDirs'[i] /\ tasks'[i].pc = "idle"
             /\ stats' = stats

\* C12 - Resume semantics: on start in normal mode, when the loaded progress
\* list is empty the scan result (the root alone when there is no
\* subdirectory) is stored as entries that are not completed and saved before
\* any directory is processed; when it is not empty nothing is scanned and the
\* directories to process are exactly the persisted entries that are not
\* completed, in persisted order, whatever the input tree holds by now.
C12_ResumeSemantics == [][C12_ResumeStep]_vars

\* a run has started on a progress file of MaxDirs entries, one of them
\* completed, and is about to process the other ones
C12_Witness ==
    /\ mainPc \in {"seq", "launch"}
    /\ Len(fileDirs) = MaxDirs
    /\ Cardinality(CompletedPaths(fileDirs)) = 1
    /\ Len(uncompletedDirs) = MaxDirs - 1
    /\ \A i \in TaskIds : tasks[i].pc = "idle"

\* no counter and no record of the statistics shows a routed file
NothingRouted(st) ==
    /\ st.ProcessedImages = 0
    /\ st.CopiedFiles = 0
    /\ st.SkippedImages = 0
    /\ st.Files = << >>
    /\ \A d \in DOMAIN st.DirectoryStats :
         /\ st.DirectoryStats[d].ProcessedImages = 0
         /\ st.DirectoryStats[d].CopiedFiles = 0
         /\ st.DirectoryStats[d].SkippedImages = 0
         /\ st.DirectoryStats[d].Files = << >>

\* a step of a dry run
C13_DryRunStep ==
    /\ fileExists' = fileExists
    /\ fileDirs' = fileDirs
    /\ CompletedPaths(tracker') \subseteq CompletedPaths(fileDirs)
    /\ NothingRouted(stats')
    /\ mainPc = "start" /\ mainPc' \notin {"start", "fatal"} /\ prevDirs.known
           => uncompletedDirs' = prevDirs.dirs

\* C13 - Dry-run: with -fake-scan, in sequential and in concurrent mode, no
\* image, video or copy pipeline handles a file, the progress file is never
\* saved and no directory is marked completed, so a repeated dry run lists the
\* directories the one before it listed.
C13_DryRun == [][C13_DryRunStep]_vars

\* a repeated concurrent dry run has listed MaxEntries files in several
\* directories of a progress file that holds a completed one
C13_Witness ==
    /\ mainPc = "finished"
    /\ prevDirs.known
    /\ multithread > 1
    /\ Len(uncompletedDirs) > 1
    /\ CompletedPaths(fileDirs) # {}
    /\ stats.TotalFiles = MaxEntries
    /\ \A i \in TaskIds : tasks[i].result = "ok"

\* the file is above the thresholds in force
AboveThreshold(c, w, h) ==
    \/ c.ThresholdWidth > 0 /\ w > c.ThresholdWidth
    \/ c.ThresholdHeight > 0 /\ h > c.ThresholdHeight

C15_SharedThresholdPolicy ==
    fnPc = "done" =>
        shouldSkipVideo(config, dims.w, dims.h) = shouldSkipImage(config, dims.w, dims.h)

\* C16 Width-mode threshold direction: with -width instead of -size, when the
\* target width enlarges the image, the image is skipped exactly when it is
\* above the threshold, and resized when it is below.
C16_WidthModeDirection ==
    fnPc = "done" /\ config.ScalingRatio10 = 0 /\ config.Width > dims.w =>
        fnOut.skipImage = AboveThreshold(config, dims.w, dims.h)

\* the direction applySmartDefaults is documented to infer
Downscaling(c) ==
    \/ c.ScalingRatio10 > 0 /\ c.ScalingRatio10 < 10
    \/ c.ScalingRatio10 = 0 /\ c.Width > 0 /\ c.Width <= 1920
Upscaling(c) ==
    \/ c.ScalingRatio10 > 10
    \/ c.ScalingRatio10 = 0 /\ c.Width > 1920

\* C17 Smart defaults: a threshold is filled in only when -ignore-smart-limit
\* is off and that threshold is 0; it becomes 1920 / 1080 when downscaling and
\* 3840 / 2160 when upscaling; a non-zero threshold of the user is never
\* changed, nor is any other setting; with the flag on and no thresholds no
\* image is skipped, and a 3840x2160 image at 0.5 is processed to 1920x1080
\* (1 processed, 0 skipped).
C17_SmartDefaults ==
    fnPc \in {"validated", "done"} =>
        LET fill == ~flags.IgnoreSmartLimit
        IN  /\ config.ThresholdWidth =
                   IF fill /\ flags.ThresholdWidth = 0 /\ Downscaling(flags) THEN 1920
                   ELSE IF fill /\ flags.ThresholdWidth = 0 /\ Upscaling(flags) THEN 3840
                   ELSE flags.ThresholdWidth
            /\ config.ThresholdHeight =
                   IF fill /\ flags.ThresholdHeight = 0 /\ Downscaling(flags) THEN 1080
                   ELSE IF fill /\ flags.ThresholdHeight = 0 /\ Upscaling(flags) THEN 2160
                   ELSE flags.ThresholdHeight
            /\ config = [flags EXCEPT !.ThresholdWidth = config.ThresholdWidth,
                                      !.ThresholdHeight = config.ThresholdHeight]
            /\ fnPc = "done" /\ flags.IgnoreSmartLimit
               /\ flags.ThresholdWidth = 0 /\ flags.ThresholdHeight = 0
                   => /\ ~fnOut.skipImage
                      /\ fnOut.imageStats.ProcessedImages = 1
                      /\ fnOut.imageStats.SkippedImages = 0
                      /\ dims.w = 3840 /\ dims.h = 2160 /\ config.ScalingRatio10 = 5
                             => fnOut.newSize = <<1920, 1080>>

\* the width threshold was filled in next to the height threshold of the
\* user, and the image was classified under them
C17_Witness ==
    /\ fnPc = "done"
    /\ ~flags.IgnoreSmartLimit
    /\ flags.ScalingRatio10 = 5
    /\ flags.ThresholdWidth = 0 /\ flags.ThresholdHeight = 4000
    /\ config.ThresholdWidth = 1920 /\ config.ThresholdHeight = 4000
    /\ dims.w = 1920 /\ dims.h = 4000
    /\ ~fnOut.skipImage

\* the sizes the documentation and the tests give
ResizeExamples ==
    /\ dims.w = 3840 /\ dims.h = 2160 /\ config.ScalingRatio10 = 3
           => fnOut.newSize = <<1152, 648>>
    /\ dims.w = 3840 /\ dims.h = 2160 /\ config.ScalingRatio10 = 5
           => fnOut.newSize = <<1920, 1080>>
    /\ dims.w = 3840 /\ dims.h = 2160 /\ config.Width = 800
           => fnOut.newSize = <<800, 450>>

\* with neither -size nor -width the size is unchanged
UnchangedWithoutTarget ==
    calculateNewSize([config EXCEPT !.Width = 0, !.ScalingRatio10 = 0], dims.w, dims.h)
        = <<dims.w, dims.h>>

\* C18 Resize dimensions: with a target width W the new size is
\* (W, round(h*W/w)); with a ratio r it is (w*r, h*r) as integers (1152x648
\* for 3840x2160 at 0.3, 1920x1080 at 0.5, 800x450 for W = 800); with
\* neither the size is unchanged.
C18_ResizeDimensions ==
    fnPc = "done" =>
        /\ config.Width > 0 =>
               fnOut.newSize =
                   <<config.Width,
                     (2 * dims.h * config.Width + dims.w) \div (2 * dims.w)>>
        /\ config.Width = 0 /\ config.ScalingRatio10 > 0 =>
               fnOut.newSize = <<(dims.w * config.ScalingRatio10) \div 10,
                                 (dims.h * config.ScalingRatio10) \div 10>>
        /\ ResizeExamples
        /\ UnchangedWithoutTarget

\* C18 (amended) Resize dimensions: with a target width W the new width is W
\* and the new height is h*W/w truncated, never rounded up: it is the integer
\* part of h*W/w, or one less where h*W/w is an integer the floating-point
\* product falls just short of; with a ratio r it is (w*r, h*r) truncated;
\* the documented sizes hold; with neither the size is unchanged.
C18_ResizeDimensionsAmended ==
    fnPc = "done" =>
        /\ config.Width > 0 =>
               LET floor == (dims.h * config.Width) \div dims.w
               IN  /\ fnOut.newSize[1] = config.Width
                   /\ fnOut.newSize[2] \in {floor - 1, floor}
                   /\ (dims.h * config.Width) % dims.w # 0 => fnOut.newSize[2] = floor
        /\ config.Width = 0 /\ config.ScalingRatio10 > 0 =>
               fnOut.newSize = <<(dims.w * config.ScalingRatio10) \div 10,
                                 (dims.h * config.ScalingRatio10) \div 10>>
        /\ ResizeExamples
        /\ UnchangedWithoutTarget

\* a height whose exact value has a fraction of a half or more was cut down
C18_Witness ==
    /\ fnPc = "done"
    /\ config.Width = 13 /\ dims.w = 3 /\ dims.h = 2
    /\ fnOut.newSize = <<13, 8>>

\* C19 Video dimensions come from the probe: the threshold decision and the
\* ratio-based scale filter of a video are computed from the width and
\* height of that file; the 1920x1080 default is used only when the probe
\* fails.
C19_VideoDimensionsFromProbe ==
    fnPc = "done" =>
        /\ dims.probeOk =>
               /\ fnOut.videoDim = <<dims.w, dims.h>>
               /\ fnOut.skipVideo = shouldSkipVideo(config, dims.w, dims.h)
               /\ config.ScalingRatio10 > 0 =>
                      fnOut.videoScale = <<(dims.w * config.ScalingRatio10) \div 10,
                                           (dims.h * config.ScalingRatio10) \div 10>>
        /\ ~dims.probeOk => fnOut.videoDim = <<1920, 1080>>

\* the skipped file is counted and recorded once in both scopes, with its
\* path relative to the input root
SkipAccounted(st) ==
    LET rec == [Path |-> <<MediaDir, 1>>, Type |-> "skipped"]
    IN  /\ st.SkippedImages = 1
        /\ st.Files = <<rec>>
        /\ st.DirectoryStats[MediaDir].SkippedImages = 1
        /\ st.DirectoryStats[MediaDir].Files = <<rec>>

\* C20 Skip accounting: every file the threshold policy skips, image or video,
\* increments the skipped counter of its directory's and of the global
\* statistics and appends one record of kind "skipped", with the path
\* relative to the input root, to both record lists.
C20_SkipAccounting ==
    fnPc = "done" =>
        /\ fnOut.skipImage => SkipAccounted(fnOut.imageStats)
        /\ fnOut.skipVideo => SkipAccounted(fnOut.videoStats)

\* the records of a scope for the file called name
RecordsOf(scope, name) ==
    { k \in 1..Len(scope.Files) :
        scope.Files[k].Path[Len(scope.Files[k].Path)] = name }

\* C21 File-scope errors: when the image or the video pipeline returns an
\* error for a file, the error is logged, the loop goes on to the next entry
\* of the directory, and the file has no record (hence no processed or skipped
\* count) in the directory's or in the global statistics.
C21_FileScopeErrors ==
    \A k \in 1..Len(fileHist) :
        LET h == fileHist[k]
        IN  h.route \in {"image", "video"} /\ h.err =>
                /\ h.logged
                /\ k = Len(fileHist) /\ filePc = "returned" => k = Len(dirEntries)
                /\ RecordsOf(fileStats.global, h.name) = {}
                /\ RecordsOf(fileStats.dir, h.name) = {}

\* C22 HEIC outputs are JPEG: every output file produced for a .heic input
\* has a .jpg name and holds JPEG data (or what a failed write left of it),
\* on every path through the image pipeline.
C22_HeicOutputsJpeg ==
    \A k \in 1..Len(fileHist) :
        fileHist[k].name = <<"c", ".", "h", "e", "i", "c">> =>
            \A f \in outFiles :
                /\ f.name # <<"c", ".", "h", "e", "i", "c">>
                /\ f.name = <<"c", ".", "j", "p", "g">> => f.format \in {"jpeg", "partial"}

\* in a scope, processed + copied + skipped is the number of records and at
\* most the number of files counted
ScopeConsistent(scope) ==
    /\ scope.ProcessedImages + scope.CopiedFiles + scope.SkippedImages = Len(scope.Files)
    /\ Len(scope.Files) <= scope.TotalFiles

\* a step of a run: a task that counts its file (stats.TotalFiles++,
\* dirStats.TotalFiles++) makes both counters grow by one, and the counters
\* of every scope agree with its records
C23_CounterStep ==
    /\ \A i \in DOMAIN tasks :
         i \in DOMAIN tasks' /\ tasks[i].pc = "wr" /\ tasks'[i].pc = "pipe" =>
             LET d == tasks[i].dir
             IN  /\ stats'.TotalFiles = stats.TotalFiles + 1
                 /\ d \in DOMAIN stats.DirectoryStats
                 /\ d \in DOMAIN stats'.DirectoryStats
                 /\ stats'.DirectoryStats[d].TotalFiles =
                        stats.DirectoryStats[d].TotalFiles + 1
    /\ ScopeConsistent(stats')
    /\ \A d \in DOMAIN stats'.DirectoryStats : ScopeConsistent(stats'.DirectoryStats[d])

\* C23 Counter consistency: every file that gets past the filters makes the
\* total-file counter of its directory and of the global scope grow by
\* exactly one before it is routed, whatever the outcome; and in each scope
\* processed + copied + skipped equals the number of records and never
\* exceeds the total-file counter.
C23_CounterConsistency == [][C23_CounterStep]_vars

\* the ratio of a record is output size / input size
RatioIsQuotient(f) ==
    /\ f.CompressionRatio[2] # 0
    /\ f.CompressionRatio[1] * f.InputSize = f.CompressionRatio[2] * f.OutputSize

RatiosHold(scope) ==
    \A k \in 1..Len(scope.Files) :
        LET f == scope.Files[k]
        IN  /\ f.Type \in {"processed", "video_processed"} => RatioIsQuotient(f)
            /\ f.Type \in {"copied", "skipped"} =>
                   f.CompressionRatio = <<1, 1>> /\ f.OutputSize = f.InputSize

\* C24 Compression-ratio invariant: every record of kind "processed" or
\* "video_processed" has ratio = output size / input size, and every record
\* of kind "copied" or "skipped" has ratio exactly 1.0 and an output size
\* equal to its input size.
C24_CompressionRatio ==
    filePc # "off" => RatiosHold(fileStats.global) /\ RatiosHold(fileStats.dir)

\* the directory's records: a file that was processed to half its size, then
\* one that was copied or skipped
C24_Witness ==
    /\ filePc = "returned"
    /\ Len(fileStats.dir.Files) = 2
    /\ fileStats.dir.Files[1].Type \in {"processed", "video_processed"}
    /\ fileStats.dir.Files[1].InputSize = 2
    /\ fileStats.dir.Files[1].OutputSize = 1
    /\ fileStats.dir.Files[2].Type \in {"copied", "skipped"}

\* the lower-cased extension, without the dot, of each entry name
ExtensionOf(name) ==
    CASE name = <<"a", ".", "j", "p", "g">> -> "jpg"
      [] name = <<"a", ".", "h", "e", "i", "c">> -> "heic"
      [] name = <<"b", ".", "J", "P", "G">> -> "jpg"
      [] name = <<"c", ".", "h", "e", "i", "c">> -> "heic"
      [] name = <<"d", ".", "p", "n", "g">> -> "png"
      [] name = <<"e", ".", "m", "p", "4">> -> "mp4"
      [] name = <<"f", ".", "M", "O", "V">> -> "mov"
      [] name = <<"g", ".", "t", "x", "t">> -> "txt"
      [] name = <<"h">> -> ""
      [] name = <<".", "_", "a", ".", "j", "p", "g">> -> "jpg"
      [] OTHER -> ""

\* the trimmed, lower-cased entries of each -ext list
AllowListOf(extensions) ==
    CASE extensions = <<"j", "p", "g">> -> {"jpg"}
      [] extensions = <<"J", "P", "G", ",", " ", "p", "n", "g">> -> {"jpg", "png"}
      [] extensions = <<"h", "e", "i", "c", ",", "m", "p", "4">> -> {"heic", "mp4"}
      [] extensions = <<".", "j", "p", "g">> -> {".jpg"}
      [] extensions = <<"t", "x", "t", ",">> -> {"txt", ""}
      [] OTHER -> {}

Handled(cfg, name) ==
    cfg.Extensions = << >> \/ ExtensionOf(name) \in AllowListOf(cfg.Extensions)

ExpectedRoute(cfg, name) ==
    IF ExtensionOf(name) \in {"mp4", "avi", "mkv", "mov", "wmv", "flv", "webm", "m4v"}
       /\ ~cfg.VideoDisabled
    THEN "video"
    ELSE IF ExtensionOf(name) \in {"jpg", "jpeg", "heic", "png"} THEN "image"
    ELSE "copy"

\* C25 Extension allow-list and routing: with an allow-list, a file is handled
\* only if its lower-cased extension without the dot is one of the trimmed,
\* lower-cased entries of the list; any other file produces no output file, no
\* counter change and no record; a handled file goes to the video pipeline iff
\* it has a video extension and video is not disabled, to the image pipeline
\* iff its extension is jpg, jpeg, heic or png, and is copied otherwise.
C25_AllowListAndRouting ==
    filePc # "off" =>
        /\ \A k \in 1..Len(fileHist) :
             LET h == fileHist[k]
             IN  h.route \notin {"dir", "hidden"} =>
                    /\ (h.route = "filtered") = ~Handled(fileCfg, h.name)
                    /\ h.route = "filtered" =>
                           /\ RecordsOf(fileStats.global, h.name) = {}
                           /\ RecordsOf(fileStats.dir, h.name) = {}
                           /\ \A f \in outFiles :
                                f.name = OutputName(h.name) =>
                                    \E m \in 1..Len(fileHist) :
                                        /\ m # k
                                        /\ fileHist[m].route \in {"video", "image", "copy"}
                                        /\ OutputName(fileHist[m].name) = f.name
                    /\ h.route \in {"video", "image", "copy"} =>
                           h.route = ExpectedRoute(fileCfg, h.name)
        /\ fileStats.global.TotalFiles =
               Cardinality({ k \in 1..Len(fileHist) :
                               fileHist[k].route \in {"video", "image", "copy"} })
        /\ fileStats.dir.TotalFiles = fileStats.global.TotalFiles

\* with -ext "JPG, png" and video disabled, b.JPG went to the image pipeline
\* and e.mp4 was passed over
C25_Witness ==
    /\ filePc = "returned"
    /\ fileCfg.Extensions = <<"J", "P", "G", ",", " ", "p", "n", "g">>
    /\ Len(fileHist) = 2
    /\ fileHist[1].name = <<"b", ".", "J", "P", "G">>
    /\ fileHist[1].route = "image"
    /\ fileHist[1].result = "processed"
    /\ fileHist[2].name = <<"e", ".", "m", "p", "4">>
    /\ fileHist[2].route = "filtered"

\* C26 Video retry policy: a video is sent to the transcoder at most twice;
\* the second run happens only if the first failed and the source has an
\* audio stream, comes after the partial output was deleted, and re-encodes
\* the audio stream (aac, 128k) instead of copying it; a failed first run
\* without audio, or a failed second run, fails that file only and leaves no
\* "video_processed" record.
C26_VideoRetryPolicy ==
    filePc # "off" =>
        \A k \in 1..Len(fileHist) :
            LET h == fileHist[k]
                n == Len(h.calls)
            IN  h.route = "video" /\ h.result # "" =>
                    /\ n <= 2
                    /\ n = 2 =>
                           /\ ~h.calls[1].ok
                           /\ "audio" \in h.calls[1].streams
                           /\ h.calls[2].removed
                           /\ h.calls[2].audio = "aac"
                           /\ h.calls[2].bitrate = "128k"
                           /\ "audio" \in h.calls[2].streams
                    /\ (n >= 1 /\ ~h.calls[n].ok) =>
                           /\ h.err /\ h.logged
                           /\ k = Len(fileHist) /\ filePc = "returned" => k = Len(dirEntries)
                           /\ \A j \in RecordsOf(fileStats.global, h.name) :
                                  fileStats.global.Files[j].Type # "video_processed"
                           /\ \A j \in RecordsOf(fileStats.dir, h.name) :
                                  fileStats.dir.Files[j].Type # "video_processed"

\* a step of the run under way: of main's loop, of a task, or the end of
\* the wait
RunProgress ==
    \/ \E i \in TaskIds : SeqBegin(i)
    \/ Launch
    \/ \E i \in TaskIds : Acquire(i)
    \/ \E i \in TaskIds : ProcStart(i)
    \/ \E i \in TaskIds : Lookup(i)
    \/ \E i \in TaskIds : MkdirFail(i)
    \/ \E i \in TaskIds : WriteTotal(i)
    \/ \E i \in TaskIds : Pipeline(i)
    \/ \E i \in TaskIds : PLock(i)
    \/ \E i \in TaskIds : MarkAndSave(i)
    \/ \E i \in TaskIds : SLock(i)
    \/ \E i \in TaskIds : ReportAndReset(i)
    \/ \E i \in TaskIds : Release(i)
    \/ Finish

\* the run is over and every directory it had to process is marked completed
\* or was reported as failed
RunAccounted ==
    /\ mainPc = "finished"
    /\ semaphore = 0
    /\ \A i \in TaskIds :
         \/ tasks[i].pc = "failed"
         \/ tasks[i].pc = "done" /\ tasks[i].dir \in CompletedPaths(tracker)

\* C27 Termination: a run that has begun to process its directories, in
\* either mode, never stops short of its end: as long as some task has not
\* passed the admission gate, finished and released it, or the wait has not
\* returned, a step of the run is possible, and when the run is over every
\* uncompleted directory is marked completed or was reported as failed.
C27_Termination ==
    mainPc \notin {"start", "fatal"} => RunAccounted \/ ENABLED RunProgress

\* the standard correction for an orientation value: the size of the upright
\* image and, for each of its points, the point of the stored image shown there
UprightSwapsSides(tag) == tag \in 5..8
UprightSource(tag, w, h, x, y) ==
    CASE tag = 2 -> <<w - 1 - x, y>>
      [] tag = 3 -> <<w - 1 - x, h - 1 - y>>
      [] tag = 4 -> <<x, h - 1 - y>>
      [] tag = 5 -> <<y, x>>
      [] tag = 6 -> <<y, h - 1 - x>>
      [] tag = 7 -> <<w - 1 - y, h - 1 - x>>
      [] tag = 8 -> <<w - 1 - y, x>>
      [] OTHER -> <<x, y>>

\* C28 Orientation correction: for each orientation value 1..8 the image
\* returned shows, pixel for pixel, the standard EXIF correction of the
\* decoded image (1 identity, 2 horizontal flip, 3 rotation by 180 degrees,
\* 4 vertical flip, 5 transpose, 6 rotation by 90 degrees clockwise,
\* 7 transverse, 8 rotation by 90 degrees counter-clockwise), for every
\* image size; any other or absent value leaves the image unchanged.
C28_OrientationCorrection ==
    orientPc = "oriented" =>
        /\ orientOut.w = IF UprightSwapsSides(orientation) THEN img.h ELSE img.w
        /\ orientOut.h = IF UprightSwapsSides(orientation) THEN img.w ELSE img.h
        /\ DOMAIN orientOut.px = Points(orientOut.w, orientOut.h)
        /\ \A q \in DOMAIN orientOut.px :
             orientOut.px[q].id =
                 img.px[UprightSource(orientation, img.w, img.h, q[1], q[2])].id
        /\ orientation \notin 2..8 => orientOut = img

\* a 3x2 image with orientation 6 was turned into a 2x3 image
C28_Witness ==
    /\ orientPc = "oriented"
    /\ orientation = 6
    /\ img.w = 3 /\ img.h = 2
    /\ orientOut.w = 2 /\ orientOut.h = 3
    /\ orientOut.px[<<1, 0>>].id = <<0, 0>>

\* the TIFF data of an APP1 segment "Exif\0\0": what follows the marker, the
\* length and the identifier
TiffOf(segment) == SubSeq(segment, 11, Len(segment))
OrderOf(tiff) == IF tiff[1] = 77 THEN "MM" ELSE "II"
\* the 16-bit and 32-bit numbers at offset off (from 0) of TIFF data
Rd16(tiff, off) ==
    IF OrderOf(tiff) = "MM" THEN tiff[off + 1] * 256 + tiff[off + 2]
    ELSE tiff[off + 2] * 256 + tiff[off + 1]
Rd32(tiff, off) ==
    IF OrderOf(tiff) = "MM" THEN Rd16(tiff, off) * 65536 + Rd16(tiff, off + 2)
    ELSE Rd16(tiff, off + 2) * 65536 + Rd16(tiff, off)
\* the offsets of the entries of the first IFD whose tag is Orientation
OrientationOffsets(tiff) ==
    LET ifd == Rd32(tiff, 4)
    IN  { ifd + 2 + 12 * k : k \in { j \in 0..(Rd16(tiff, ifd) - 1) :
                                       Rd16(tiff, ifd + 2 + 12 * j) = 274 } }

\* C29 Orientation tag cleared: for EXIF data with an orientation entry (tag
\* 0x0112, either byte order) of any value 1..8, the data clearOrientationTag
\* returns has that entry's value equal to 1 and its type and count
\* unchanged.
C29_OrientationCleared ==
    exifPc \in {"cleaned", "written"} /\ exifData # << >> =>
        LET before == TiffOf(exifData)
            after == TiffOf(cleanedExifData)
        IN  \A e \in OrientationOffsets(before) :
                Rd16(before, e + 8) \in 1..8 =>
                    /\ Len(after) = Len(before)
                    /\ Rd16(after, e + 8) = 1
                    /\ Rd16(after, e + 2) = Rd16(before, e + 2)
                    /\ Rd32(after, e + 4) = Rd32(before, e + 4)

\* the TIFF data of the first EXIF APP1 segment of a file
SourceTiff(data) ==
    LET i == CHOOSE j \in 1..(Len(data) - 9) :
                 /\ data[j] = 255 /\ data[j + 1] = 225
                 /\ SubSeq(data, j + 4, j + 9) = ExifIdentifier
                 /\ \A k \in 1..(j - 1) :
                      ~(/\ data[k] = 255 /\ data[k + 1] = 225
                        /\ SubSeq(data, k + 4, k + 9) = ExifIdentifier)
    IN  SubSeq(data, i + 10, i + 1 + data[i + 2] * 256 + data[i + 3])
\* the positions (from 1) of TIFF data that belong to an orientation entry
InOrientationEntry(tiff, k) ==
    \E e \in OrientationOffsets(tiff) : k \in (e + 1)..(e + 12)
GuardTurnsAway(jpegData) ==
    Len(jpegData) < 4 \/ SubSeq(jpegData, 1, 2) # SOI

\* C30 Metadata reinsertion framing: for a JPEG input with an EXIF APP1
\* segment, extraction followed by reinsertion yields SOI, then exactly one
\* APP1 segment (marker FF E1, big-endian length of length field and payload,
\* "Exif\0\0", the source's TIFF data, the orientation entry apart), then the
\* re-encoded bytes after their SOI; re-encoded bytes that do not start with
\* SOI or are shorter than 4 bytes come back unchanged.
C30_ReinsertionFraming ==
    exifPc = "written" /\ exifDecodes(jpegIn) =>
        IF GuardTurnsAway(encoded) THEN exifOut = encoded
        ELSE LET tiff == SourceTiff(jpegIn)
                 n == Len(tiff)
             IN  /\ Len(exifOut) = 12 + n + Len(encoded) - 2
                 /\ SubSeq(exifOut, 1, 2) = SOI
                 /\ SubSeq(exifOut, 3, 6) =
                        <<255, 225, HiByte(n + 8), LoByte(n + 8)>>
                 /\ SubSeq(exifOut, 7, 12) = ExifIdentifier
                 /\ \A k \in 1..n :
                      ~InOrientationEntry(tiff, k) => exifOut[12 + k] = tiff[k]
                 /\ SubSeq(exifOut, 13 + n, Len(exifOut)) =
                        SubSeq(encoded, 3, Len(encoded))

\* within one run: no two tasks have the same directory, the tasks are the
\* uncompleted directories of the tracker as main() collected them, and when
\* main() has finished every task has been through processImages
OneTaskPerDirectory ==
    /\ \A i \in TaskIds, j \in TaskIds : i # j => tasks[i].dir # tasks[j].dir
    /\ Len(tasks) = Len(uncompletedDirs)
    /\ \A i \in TaskIds : tasks[i].dir = uncompletedDirs[i]
    /\ mainPc = "finished" => \A i \in TaskIds : tasks[i].result # "none"
\* a step of task i within one run: it enters processImages from the
\* dispatch only, does not enter it again, and its files are routed one at a
\* time, each the successor of the one before, up to the last of the listing
DispatchedOnce(i) ==
    LET t == tasks[i]
        u == tasks'[i]
    IN  /\ u.dir = t.dir
        /\ u.pc = "start" => t.pc \in {"idle", "sem", "start"}
        /\ t.pc \notin {"idle", "sem"} => u.pc \notin {"idle", "sem"}
        /\ t.result # "none" => u.result = t.result /\ u.idx = t.idx
        /\ u.idx \in {t.idx, t.idx + 1}
        /\ u.idx = t.idx + 1 => t.pc = "pipe" /\ u.pc # "pipe"
        /\ u.idx <= u.nEntries
        /\ u.result = "ok" => u.idx = u.nEntries
C31_DispatchStep ==
    /\ OneTaskPerDirectory'
    /\ (mainPc # "start" /\ mainPc' # "start") =>
          /\ DOMAIN tasks' = DOMAIN tasks
          /\ \A i \in TaskIds : DispatchedOnce(i)

\* C31 Exactly-once dispatch: within one run each uncompleted directory is
\* handed to per-directory processing exactly once and by one task only, and
\* the files of a directory are processed one after another in listing
\* order, never two files of the same directory at the same time.
C31_ExactlyOnceDispatch == [][C31_DispatchStep]_vars

\* two goroutines are each routing a file of their own directory
C31_Witness ==
    /\ mainPc = "wait"
    /\ \E i \in TaskIds, j \in TaskIds :
         /\ i # j
         /\ tasks[i].pc = "pipe" /\ tasks[j].pc = "pipe"
         /\ tasks[i].dir # tasks[j].dir

\* C32 Threshold on corrected dimensions: the threshold policy and the resize
\* computation use the image dimensions after orientation correction: for
\* orientation values 5..8 width and height are swapped relative to the
\* stored image, for values 1..4 and unknown values they are unchanged.
C32_CorrectedDimensions ==
    orientPc = "measured" =>
        LET swapped == orientation \in 5..8
            w == IF swapped THEN img.h ELSE img.w
            h == IF swapped THEN img.w ELSE img.h
        IN  /\ fnOut.width = w
            /\ fnOut.height = h
            /\ fnOut.skip = shouldSkipImage(config, w, h)
            /\ fnOut.newSize = calculateNewSize(config, w, h)

\* a 3x1 image with orientation 6 is skipped as a 1x3 image, which the
\* stored size would not have been
C32_Witness ==
    /\ orientPc = "measured"
    /\ orientation = 6
    /\ img.w = 3 /\ img.h = 1
    /\ fnOut.width = 1 /\ fnOut.height = 3
    /\ fnOut.skip
    /\ ~shouldSkipImage(config, img.w, img.h)

\* the entries of a tracker whose path is p
EntriesOf(dirs, p) == { k \in 1..Len(dirs) : dirs[k].path = p }
\* the call of markDirectoryCompleted returns
C33_MarkStep ==
    markPc = "call" /\ markPc' = "returned" =>
        /\ Len(tracker') = Len(tracker)
        /\ \A k \in 1..Len(tracker) :
             IF k \in EntriesOf(tracker, markArg)
                /\ \A m \in EntriesOf(tracker, markArg) : k <= m
             THEN /\ tracker'[k].path = tracker[k].path
                  /\ tracker'[k].completed
                  /\ tracker'[k].timestamp = "now"
             ELSE tracker'[k] = tracker[k]
        /\ EntriesOf(tracker, markArg) = {} => tracker' = tracker

\* C33 markCompleted frame: marking a path sets completed=true and a
\* timestamp on the first entry whose path equals it and changes no other
\* entry; when no entry has that path the tracker is left entirely unchanged.
C33_MarkCompletedFrame == [][C33_MarkStep]_vars

\* a tracker with two entries of the marked path: the first one is marked
\* now, the second one is still open
C33_Witness ==
    /\ markPc = "returned"
    /\ \E k \in EntriesOf(tracker, markArg), m \in EntriesOf(tracker, markArg) :
         /\ k < m
         /\ tracker[k].timestamp = "now"
         /\ ~tracker[m].completed

\* processImages has returned nil, on which main() marks the directory
\* completed: it is past its last entry and neither os.MkdirAll nor the copy
\* of an unsupported file made it return an error
ReturnedNil ==
    /\ filePc = "returned"
    /\ fileIdx = Len(dirEntries)
    /\ \A k \in 1..Len(fileHist) :
         /\ fileHist[k].route # "mkdir"
         /\ ~(fileHist[k].route = "copy" /\ fileHist[k].err)
\* the entry is a file that passed the classifier
PassedClassifier(h) == h.route \notin {"dir", "hidden", "filtered"}

\* C34 Completed means fully output: whenever a directory is marked
\* completed, every file of that directory that passed the classifier (not
\* '._'-prefixed, allowed by the extension filter) has a corresponding output
\* file.
C34_CompletedMeansOutput ==
    ReturnedNil =>
        \A k \in 1..Len(fileHist) :
            PassedClassifier(fileHist[k]) =>
                \E f \in outFiles : f.name = OutputName(fileHist[k].name)

\* a pipeline was called for the entry and wrote its output
WroteOutput(h) ==
    /\ h.route \in {"image", "video", "copy"}
    /\ h.result \in {"processed", "skipped", "video_processed", "copied"}
    /\ ~h.err

\* C35 Output paths do not collide: two different input files never map to the
\* same output path (in particular x.heic and x.jpg of one directory), so no
\* output file is overwritten by the output of another input.
C35_NoOutputCollision ==
    \A k \in 1..Len(fileHist), m \in 1..Len(fileHist) :
        k # m /\ WroteOutput(fileHist[k]) /\ WroteOutput(fileHist[m]) =>
            OutputName(fileHist[k].name) # OutputName(fileHist[m].name)

\* a step of goroutine i
TaskStep(i) ==
    \/ Acquire(i)
    \/ ProcStart(i)
    \/ Lookup(i)
    \/ MkdirFail(i)
    \/ WriteTotal(i)
    \/ Pipeline(i)
    \/ PLock(i)
    \/ MarkAndSave(i)
    \/ SLock(i)
    \/ ReportAndReset(i)
    \/ Release(i)

\* C36 Lock discipline: in concurrent mode no task ever holds the progress
\* mutex and the statistics mutex at the same time; a mutex is held only
\* inside its critical section, so it is released on every path after it was
\* acquired; the admission slots taken are exactly those of the tasks between
\* their acquire and their deferred release, so a task that has ended, on the
\* error path too, holds none; and while wg.Wait() is waiting for a task that
\* has not ended, some task can take a step: no reachable state is a deadlock.
C36_LockDiscipline ==
    Concurrent =>
        /\ \A i \in TaskIds :
             /\ ~(progressMutex = i /\ statsMutex = i)
             /\ progressMutex = i <=> tasks[i].pc = "mark"
             /\ statsMutex = i <=> tasks[i].pc = "report"
             /\ Finished(tasks[i]) => ~HoldsSlot(tasks[i])
        /\ progressMutex \in TaskIds \cup {0}
        /\ statsMutex \in TaskIds \cup {0}
        /\ semaphore = Cardinality({ i \in TaskIds : HoldsSlot(tasks[i]) })
        /\ (mainPc = "wait" /\ \E i \in TaskIds : ~Finished(tasks[i])) =>
               \E i \in TaskIds : ENABLED TaskStep(i)
        /\ (mainPc = "wait" /\ \A i \in TaskIds : Finished(tasks[i])) =>
               semaphore = 0 /\ progressMutex = 0 /\ statsMutex = 0

\* one goroutine has ended on the error path and given its slot back, while
\* a second one holds the progress mutex and a third one the statistics mutex
C36_Witness ==
    /\ mainPc = "wait"
    /\ \E i \in TaskIds, j \in TaskIds, k \in TaskIds :
         /\ tasks[i].pc = "failed"
         /\ tasks[j].pc = "mark" /\ progressMutex = j
         /\ tasks[k].pc = "report" /\ statsMutex = k
         /\ semaphore = 2

\* insertEXIFCorrectly has inserted a segment into the re-encoded bytes
InsertedSegment ==
    /\ exifPc = "written"
    /\ cleanedExifData # << >>
    /\ ~GuardTurnsAway(encoded)

\* C37 Segment length field: for every metadata payload passed to
\* insertEXIFCorrectly, the 2-byte length written in the inserted APP1 segment
\* equals 2 + 6 + len(payload), the number of bytes from the length field to
\* the end of the segment; it never wraps modulo 2^16.
C37_SegmentLengthField ==
    InsertedSegment =>
        exifOut[5] * 256 + exifOut[6] = 2 + 6 + Len(cleanedExifData)

\* C38 Dry-run leaves the output tree untouched: in dry-run mode nothing is
\* created under the output root, neither the output root itself nor the
\* mirrored sub-directories (the model of the dry run writes no output file
\* at all: the directories are all there is to create).
C38_DryRunOutputUntouched == [][outDirs' = outDirs]_vars

====
